---- MODULE Spec2Model ----
(***************************************************************************)
(* Model of the metrics pipeline orchestration layer:                      *)
(*   - SimpleCache, with_retry and BatchProcessor                          *)
(*     (src/src/metrics_pipeline/utils/performance.py)                     *)
(*   - MetricsPipeline (src/src/metrics_pipeline/core/pipeline/processor.py)*)
(*   - the ingestion adapters' validate                                    *)
(*     (src/src/metrics_pipeline/adapters/ingestion/http.py)               *)
(*                                                                         *)
(* Two specifications share the definitions of this module:                *)
(*   SpecPipe  the pipeline's operations (process_metrics, process_batch,  *)
(*             queue consumption, timer flush) against the cache, the      *)
(*             accumulator and the two collaborators;                      *)
(*   SpecBP    the accumulator's tasks (add_item callers, the background   *)
(*             timer task, start/stop, the unlocked forced flush)          *)
(*             interleaved at their suspension points.                     *)
(***************************************************************************)
EXTENDS Integers, Sequences, FiniteSets, TLC

(***************************************************************************)
(* Bounds of the model.                                                    *)
(***************************************************************************)
\* longest batch handed to process_batch
MaxBatchLen == 3
\* last instant of the pipeline's clock
MaxNow == 1
\* records submitted to the pipeline in one run
MaxSubmitted == 3

(***************************************************************************)
(* Configuration of the pipeline under test (constructor arguments).       *)
(***************************************************************************)
\* MetricsPipeline(batch_size=...)
PipeBatchSize == 3
\* MetricsPipeline(processing_interval=...)
PipeInterval == 1
\* MetricsPipeline(cache_ttl=...)
PipeCacheTtl == 0
\* MetricsPipeline(retry_count=...)
PipeRetryCount == 1
\* SimpleCache(max_size=DEFAULT_CACHE_SIZE)
DEFAULT_CACHE_SIZE == 1000
\* with_retry(delay=1.0)
RetryDelay == 1
\* with_retry(backoff=2.0)
RetryBackoff == 2

(***************************************************************************)
(* Optional values: None is the empty sequence, a value x is <<x>>.        *)
(***************************************************************************)
NoneVal == <<>>

Some(x) == <<x>>

(***************************************************************************)
(* Raw records.  A raw record is whatever the caller passes in: a mapping  *)
(* with some of the top-level fields, or something that is no mapping.     *)
(* The state holds the records by name; Raw gives what a name stands for.  *)
(***************************************************************************)
RequiredFields == <<"timestamp", "metric_type", "metrics">>

OkMetric == [is_dict |-> TRUE, has_name |-> TRUE, has_value |-> TRUE, numeric |-> TRUE]

BadValueMetric == [is_dict |-> TRUE, has_name |-> TRUE, has_value |-> TRUE, numeric |-> FALSE]

AllFields == {"timestamp", "metric_type", "metrics"}

\* "a", "b": two complete records of different metric_type
\* "nots": a record without its timestamp
\* "badvalue": a record that has every field but a metric value that is no number
\* "notmapping": a raw value that is no mapping (an integer, None)
RawRecords == {"a", "b", "nots", "badvalue", "notmapping"}

\* further raw records, submitted where validation itself is examined:
\* "notype", "nometrics", "onlyts", "onlytype", "onlymetrics", "nofields":
\*     mappings without some of the required fields
\* "empty": a record that has every field and an empty list of metrics
\* "notlist": a record whose metrics field is no list
\* "notdict": a record whose one metric is no dictionary
\* "noname": a record whose one metric has no name
MoreRawRecords == {"notype", "nometrics", "onlyts", "onlytype", "onlymetrics",
                   "nofields", "empty", "notlist", "notdict", "noname"}

\* the top-level fields of the records that lack some
PartialFields(name) ==
    CASE name = "notype" -> {"timestamp", "metrics"}
      [] name = "nometrics" -> {"timestamp", "metric_type"}
      [] name = "onlyts" -> {"timestamp"}
      [] name = "onlytype" -> {"metric_type"}
      [] name = "onlymetrics" -> {"metrics"}
      [] OTHER -> {}

Raw(name) ==
    CASE name = "nots" ->
            [mapping |-> TRUE, fields |-> {"metric_type", "metrics"},
             metrics_is_list |-> TRUE, metrics |-> <<OkMetric>>]
      [] name \in {"notype", "nometrics", "onlyts", "onlytype", "onlymetrics",
                   "nofields"} ->
            [mapping |-> TRUE, fields |-> PartialFields(name),
             metrics_is_list |-> "metrics" \in PartialFields(name),
             metrics |-> IF "metrics" \in PartialFields(name)
                         THEN <<OkMetric>> ELSE <<>>]
      [] name = "empty" ->
            [mapping |-> TRUE, fields |-> AllFields,
             metrics_is_list |-> TRUE, metrics |-> <<>>]
      [] name = "notlist" ->
            [mapping |-> TRUE, fields |-> AllFields,
             metrics_is_list |-> FALSE, metrics |-> <<>>]
      [] name = "notdict" ->
            [mapping |-> TRUE, fields |-> AllFields,
             metrics_is_list |-> TRUE,
             metrics |-> <<[OkMetric EXCEPT !.is_dict = FALSE,
                                            !.has_name = FALSE,
                                            !.has_value = FALSE]>>]
      [] name = "noname" ->
            [mapping |-> TRUE, fields |-> AllFields,
             metrics_is_list |-> TRUE,
             metrics |-> <<[OkMetric EXCEPT !.has_name = FALSE]>>]
      [] name = "badvalue" ->
            [mapping |-> TRUE, fields |-> AllFields,
             metrics_is_list |-> TRUE, metrics |-> <<BadValueMetric>>]
      [] name = "notmapping" ->
            [mapping |-> FALSE, fields |-> {},
             metrics_is_list |-> FALSE, metrics |-> <<>>]
      [] OTHER ->
            [mapping |-> TRUE, fields |-> AllFields,
             metrics_is_list |-> TRUE, metrics |-> <<OkMetric>>]

(***************************************************************************)
(* Sequence helpers.                                                       *)
(***************************************************************************)
RECURSIVE FlattenSeq(_)
FlattenSeq(ss) == IF ss = <<>> THEN <<>> ELSE Head(ss) \o FlattenSeq(Tail(ss))

(***************************************************************************)
(* Ingestion adapter: validate (http.py and sqs.py hold the same code).    *)
(***************************************************************************)
\* an error string: its text, the field and the metric index it names
Err(msg, field, idx) == [msg |-> msg, field |-> field, index |-> idx]

RECURSIVE MissingFieldErrors(_, _)
MissingFieldErrors(r, i) ==
    IF i > Len(RequiredFields) THEN <<>>
    ELSE (IF RequiredFields[i] \in r.fields THEN <<>>
          ELSE <<Err("Missing required field", RequiredFields[i], -1)>>)
         \o MissingFieldErrors(r, i + 1)

MetricFieldErrors(m, idx) ==
    IF ~m.is_dict THEN <<Err("Metric is not a dictionary", "", idx)>>
    ELSE (IF m.has_name THEN <<>>
          ELSE <<Err("Metric missing required field", "name", idx)>>)
         \o (IF m.has_value THEN <<>>
             ELSE <<Err("Metric missing required field", "value", idx)>>)

RECURSIVE MetricsErrors(_, _)
MetricsErrors(ms, i) ==
    IF i > Len(ms) THEN <<>>
    ELSE MetricFieldErrors(ms[i], i - 1) \o MetricsErrors(ms, i + 1)

\* a validate that returns its list of errors as it is, empty or not
Validate_ErrorsAsListed(name) ==
    LET r == Raw(name)
        errors == MissingFieldErrors(r, 1)
                  \o (IF "metrics" \in r.fields /\ r.metrics_is_list
                      THEN MetricsErrors(r.metrics, 1)
                      ELSE IF "metrics" \in r.fields
                           THEN <<Err("'metrics' field must be an array", "metrics", -1)>>
                           ELSE <<>>)
    IN [raised |-> ~r.mapping,
        result |-> [valid |-> r.mapping /\ Len(errors) = 0,
                    errors |-> IF r.mapping THEN Some(errors) ELSE NoneVal]]

\* validate(metrics_data): [raised, result]; raised when the membership test
\* `field not in metrics_data` is applied to a value that is no container
Validate(name) ==
    LET r == Raw(name)
    IN
    IF ~r.mapping
    THEN [raised |-> TRUE, result |-> [valid |-> FALSE, errors |-> NoneVal]]
    ELSE LET errors == MissingFieldErrors(r, 1)
                       \o (IF "metrics" \in r.fields /\ r.metrics_is_list
                           THEN MetricsErrors(r.metrics, 1)
                           ELSE IF "metrics" \in r.fields
                                THEN <<Err("'metrics' field must be an array", "metrics", -1)>>
                                ELSE <<>>)
         IN [raised |-> FALSE,
             result |-> [valid |-> Len(errors) = 0,
                         errors |-> IF errors # <<>> THEN Some(errors) ELSE NoneVal]]

(***************************************************************************)
(* MetricsData.parse_obj: the canonical record, or a failure when a        *)
(* declared field is missing or has the wrong type.                        *)
(***************************************************************************)
ParseObj(name) ==
    LET r == Raw(name)
        ok == /\ r.mapping
              /\ AllFields \subseteq r.fields
              /\ r.metrics_is_list
              /\ \A i \in DOMAIN r.metrics :
                    /\ r.metrics[i].is_dict
                    /\ r.metrics[i].has_name
                    /\ r.metrics[i].has_value
                    /\ r.metrics[i].numeric
    IN [raised |-> ~ok,
        obj |-> [metric_type |-> name, n_metrics |-> Len(r.metrics)]]

(***************************************************************************)
(* SimpleCache.  The cache is the dict in insertion order: a sequence of   *)
(* [key, value, expiry].                                                   *)
(***************************************************************************)
CacheKeys(c) == {c[i].key : i \in DOMAIN c}

CacheIndex(c, key) == CHOOSE i \in DOMAIN c : c[i].key = key

RECURSIVE CacheRemoveAt(_, _)
CacheRemoveAt(c, i) ==
    IF c = <<>> THEN <<>>
    ELSE IF i = 1 THEN Tail(c)
    ELSE <<Head(c)>> \o CacheRemoveAt(Tail(c), i - 1)

\* the cache holds an entry for key whose expiry has not passed at time t
Fresh(c, key, t) == \E i \in DOMAIN c : c[i].key = key /\ ~(t > c[i].expiry)

\* a get that never expires an entry
CacheGet_IgnoreExpiry(c, key, t) ==
    IF key \notin CacheKeys(c) THEN [value |-> NoneVal, cache |-> c]
    ELSE [value |-> Some(c[CacheIndex(c, key)].value), cache |-> c]

\* a get that reports an expired entry absent and leaves it in the cache
CacheGet_KeepExpired(c, key, t) ==
    IF key \notin CacheKeys(c) THEN [value |-> NoneVal, cache |-> c]
    ELSE IF t > c[CacheIndex(c, key)].expiry THEN [value |-> NoneVal, cache |-> c]
    ELSE [value |-> Some(c[CacheIndex(c, key)].value), cache |-> c]

\* SimpleCache.get at time t: [value, cache]; value is None or Some(v)
CacheGet(c, key, t) ==
    IF key \notin CacheKeys(c) THEN [value |-> NoneVal, cache |-> c]
    ELSE LET i == CacheIndex(c, key)
         IN IF t > c[i].expiry
            THEN [value |-> NoneVal, cache |-> CacheRemoveAt(c, i)]
            ELSE [value |-> Some(c[i].value), cache |-> c]

\* an eviction of the entry inserted first, whatever its expiry
OldestIndex_First(c) == 1

\* min(self.cache.keys(), key=expiry): the first key, in insertion order,
\* among those of least expiry
OldestIndex(c) ==
    CHOOSE i \in DOMAIN c :
        /\ \A j \in DOMAIN c : c[i].expiry <= c[j].expiry
        /\ \A j \in 1..(i - 1) : c[j].expiry > c[i].expiry

\* a set that evicts only once the cache holds more than max_size entries
CacheSet_EvictWhenOver(c, key, value, t, ttl, max_size) ==
    LET c1 == IF Len(c) > max_size /\ key \notin CacheKeys(c)
              THEN CacheRemoveAt(c, OldestIndex(c))
              ELSE c
        entry == [key |-> key, value |-> value, expiry |-> t + ttl]
    IN IF key \in CacheKeys(c1)
       THEN [c1 EXCEPT ![CacheIndex(c1, key)] = entry]
       ELSE Append(c1, entry)

\* SimpleCache.set at time t
CacheSet(c, key, value, t, ttl, max_size) ==
    LET c1 == IF Len(c) >= max_size /\ key \notin CacheKeys(c)
              THEN CacheRemoveAt(c, OldestIndex(c))
              ELSE c
        entry == [key |-> key, value |-> value, expiry |-> t + ttl]
    IN IF key \in CacheKeys(c1)
       THEN [c1 EXCEPT ![CacheIndex(c1, key)] = entry]
       ELSE Append(c1, entry)

\* SimpleCache.delete
CacheDelete(c, key) ==
    IF key \in CacheKeys(c) THEN CacheRemoveAt(c, CacheIndex(c, key)) ELSE c

\* a cleanup that also removes the entries expiring at this very instant
CacheCleanup_AtExpiry(c, t) ==
    [count |-> Cardinality({i \in DOMAIN c : t >= c[i].expiry}),
     cache |-> SelectSeq(c, LAMBDA e : ~(t >= e.expiry))]

\* SimpleCache.cleanup at time t: [count, cache]
CacheCleanup(c, t) ==
    [count |-> Cardinality({i \in DOMAIN c : t > c[i].expiry}),
     cache |-> SelectSeq(c, LAMBDA e : ~(t > e.expiry))]

(***************************************************************************)
(* with_retry.  The operation is given by its script: the outcome of each  *)
(* successive invocation, [raises, qualifies, value].                      *)
(***************************************************************************)
Returns(v) == [raises |-> FALSE, qualifies |-> FALSE, value |-> v]

\* an exception of the retryable set; value names the exception
Raises(e) == [raises |-> TRUE, qualifies |-> TRUE, value |-> e]

\* an exception outside the `exceptions` tuple
RaisesOther(e) == [raises |-> TRUE, qualifies |-> FALSE, value |-> e]

RECURSIVE RetryLoop(_, _, _, _, _, _)
RetryLoop(script, retries, attempt, current_delay, backoff, waits) ==
    LET out == script[attempt + 1]
    IN IF ~out.raises
       THEN [raised |-> FALSE, value |-> out.value, calls |-> attempt + 1, waits |-> waits]
       ELSE IF ~out.qualifies
       THEN [raised |-> TRUE, value |-> out.value, calls |-> attempt + 1, waits |-> waits]
       ELSE IF attempt < retries
       THEN RetryLoop(script, retries, attempt + 1, current_delay * backoff, backoff,
                      Append(waits, current_delay))
       ELSE [raised |-> TRUE, value |-> out.value, calls |-> attempt + 1, waits |-> waits]

\* a with_retry that raises the exception of the first attempt on exhaustion
WithRetry_FirstException(script, retries, delay, backoff) ==
    LET r == RetryLoop(script, retries, 0, delay, backoff, <<>>)
    IN IF r.raised /\ r.calls = retries + 1 /\ script[r.calls].qualifies
       THEN [r EXCEPT !.value = script[1].value]
       ELSE r

\* a with_retry that retries whatever is raised
WithRetry_RetryAll(script, retries, delay, backoff) ==
    RetryLoop([i \in DOMAIN script |-> [script[i] EXCEPT !.qualifies = TRUE]],
              retries, 0, delay, backoff, <<>>)

\* a with_retry that waits the same delay after every failure
WithRetry_ConstantDelay(script, retries, delay, backoff) ==
    RetryLoop(script, retries, 0, delay, 1, <<>>)

\* a with_retry that goes on to the next attempt after a success with
\* attempts remaining
WithRetry_NoEarlyReturn(script, retries, delay, backoff) ==
    RetryLoop([i \in DOMAIN script |->
                  IF i <= retries /\ ~script[i].raises /\ script[i + 1].raises
                  THEN Raises("e1") ELSE script[i]],
              retries, 0, delay, backoff, <<>>)

\* a retry loop of one attempt fewer: range(retries) for range(retries + 1)
WithRetry_OneFewer(script, retries, delay, backoff) ==
    RetryLoop(script, retries - 1, 0, delay, backoff, <<>>)

\* with_retry(func, retries=, delay=, backoff=): [raised, value, calls, waits]
WithRetry(script, retries, delay, backoff) ==
    RetryLoop(script, retries, 0, delay, backoff, <<>>)

(***************************************************************************)
(* Storage collaborator.  Each invocation of store / batch_store behaves   *)
(* in one of three ways: it stores everything ("ok"), it reports a failure *)
(* without raising ("fail": store returns False, batch_store reports its   *)
(* first record as failed), or it raises ("raise").                        *)
(***************************************************************************)
StorageKinds == {"ok", "fail", "raise"}

\* the behaviours of retries + 1 successive invocations; what follows the
\* first invocation that returns is never invoked and repeats it
StorageScripts(retries) ==
    {s \in [1..(retries + 1) -> StorageKinds] :
        \A i \in 1..retries : s[i] # "raise" => s[i + 1] = s[i]}

\* the storage stores everything at once
DefaultScript == [i \in 1..(PipeRetryCount + 1) |-> "ok"]

\* store(metrics_obj) behaving as kind
StoreOutcome(kind) ==
    IF kind = "raise" THEN Raises("StorageError") ELSE Returns(kind = "ok")

\* an outcome dict: the keys it has and their values
Outcome(keys, sc, fc, failures, error) ==
    [keys |-> keys, success_count |-> sc, failure_count |-> fc,
     failures |-> failures, error |-> error]

\* the empty dict {}
EmptyResult == Outcome({}, 0, 0, <<>>, "")

CountKeys == {"success_count", "failure_count", "failures"}

\* batch_store(valid_metrics) behaving as kind: the memory adapter's tally
BatchStoreOutcome(kind, objs) ==
    IF kind = "raise" THEN Raises("StorageError")
    ELSE IF kind = "fail" /\ objs # <<>>
    THEN Returns(Outcome(CountKeys, Len(objs) - 1, 1,
                         <<[data |-> objs[1].metric_type,
                            errors |-> <<Err("StorageError", "", -1)>>]>>, ""))
    ELSE Returns(Outcome(CountKeys, Len(objs), 0, <<>>, ""))

(***************************************************************************)
(* MetricsPipeline: cache-assisted validation (processor.py 70-81 and      *)
(* 144-155).                                                               *)
(***************************************************************************)
\* f"validate_{hash(str(metrics_data))}": records of different string form
\* get different keys
CacheKey(r) == <<"validate_", r>>

\* the cache missed (g is what get returned): validate and cache the result
ValidateMiss(g, v, r, t) ==
    IF v.raised
    THEN [raised |-> TRUE, called |-> TRUE, result |-> v.result, cache |-> g.cache]
    ELSE [raised |-> FALSE, called |-> TRUE, result |-> v.result,
          cache |-> CacheSet(g.cache, CacheKey(r), v.result, t,
                             PipeCacheTtl, DEFAULT_CACHE_SIZE)]

\* a validation that calls the validator whatever the cache returned
ValidateAfterGet_AlwaysValidates(g, r, t) == ValidateMiss(g, Validate(r), r, t)

\* g is what self._cache.get(cache_key) returned
ValidateAfterGet(g, r, t) ==
    IF g.value # NoneVal
    THEN [raised |-> FALSE, called |-> FALSE, result |-> g.value[1], cache |-> g.cache]
    ELSE ValidateMiss(g, Validate(r), r, t)

\* [raised, called, result, cache]
ValidateCached(cache, r, t) == ValidateAfterGet(CacheGet(cache, CacheKey(r), t), r, t)

\* the invocations a with_retry run made of a script: its first `calls` kinds
Attempts(script, wr) == SubSeq(script, 1, wr.calls)

(***************************************************************************)
(* MetricsPipeline.process_metrics at time t with the storage behaving as  *)
(* script: [raised, ret, cache, validated, attempts].                      *)
(***************************************************************************)
\* lines 94-104: wr is what with_retry(self.storage_adapter.store, ...) did
ProcessMetricsStored(base, wr, script) ==
    [base EXCEPT !.ret = IF wr.raised THEN FALSE ELSE wr.value,
                 !.attempts = Attempts(script, wr)]

\* a process_metrics without the early returns of lines 83-92
ProcessMetricsValidated_NoEarlyReturn(vc, r, script) ==
    LET base == [raised |-> FALSE, ret |-> FALSE, cache |-> vc.cache,
                 validated |-> vc.called, attempts |-> <<>>]
    IN IF vc.raised THEN [base EXCEPT !.raised = TRUE]
       ELSE ProcessMetricsStored(base,
                WithRetry([i \in DOMAIN script |-> StoreOutcome(script[i])],
                          PipeRetryCount, RetryDelay, RetryBackoff),
                script)

\* lines 83-104: vc is the validation
ProcessMetricsValidated(vc, r, script) ==
    LET base == [raised |-> FALSE, ret |-> FALSE, cache |-> vc.cache,
                 validated |-> vc.called, attempts |-> <<>>]
    IN IF vc.raised THEN [base EXCEPT !.raised = TRUE]
       ELSE IF ~vc.result.valid THEN base
       ELSE IF ParseObj(r).raised THEN base
       ELSE ProcessMetricsStored(base,
                WithRetry([i \in DOMAIN script |-> StoreOutcome(script[i])],
                          PipeRetryCount, RetryDelay, RetryBackoff),
                script)

ProcessMetricsOp(cache, r, t, script) ==
    ProcessMetricsValidated(ValidateCached(cache, r, t), r, script)

\* the storage behaviours a call can meet: the storage is reached only by a
\* record that validates and parses
StoreScripts(vc, r) ==
    IF ~vc.raised /\ vc.result.valid /\ ~ParseObj(r).raised
    THEN StorageScripts(PipeRetryCount) ELSE {DefaultScript}

\* what process_metrics can do once the validation has done vc
ProcessMetricsOutcomes(vc, r) ==
    {ProcessMetricsValidated(vc, r, script) : script \in StoreScripts(vc, r)}

(***************************************************************************)
(* MetricsPipeline._process_metrics_batch.                                 *)
(***************************************************************************)
\* one iteration of the validation loop, lines 143-172, vc the validation of r;
\* acc is [raised, cache, valid, failure_count, failures, validated]
ValidateStep(acc, r, vc) ==
    LET acc1 == [acc EXCEPT !.cache = vc.cache,
                            !.validated = IF vc.called THEN Append(@, r) ELSE @]
    IN IF vc.raised THEN [acc1 EXCEPT !.raised = TRUE]
       ELSE IF vc.result.valid
       THEN IF ParseObj(r).raised
            THEN [acc1 EXCEPT !.failure_count = @ + 1,
                              !.failures = Append(@,
                                  [data |-> r,
                                   errors |-> <<Err("Error parsing metrics data", "", -1)>>])]
            ELSE [acc1 EXCEPT !.valid = Append(@, ParseObj(r).obj)]
       ELSE [acc1 EXCEPT !.failure_count = @ + 1,
                         !.failures = Append(@,
                             [data |-> r, errors |-> FlattenSeq(vc.result.errors)])]

\* the validation loop from record i on; an exception of the validator ends it
RECURSIVE ValidateLoop(_, _, _, _)
ValidateLoop(batch, i, t, acc) ==
    IF i > Len(batch) \/ acc.raised THEN acc
    ELSE ValidateLoop(batch, i + 1, t,
                      ValidateStep(acc, batch[i], ValidateCached(acc.cache, batch[i], t)))

\* a merge that takes the storage's failure count for the whole batch's
MergeStorage_Overwrites(base, v, wr, script) ==
    [base EXCEPT
       !.attempts = Attempts(script, wr),
       !.result =
          IF wr.raised
          THEN Outcome(CountKeys, 0, Len(v.valid),
                       v.failures \o [i \in DOMAIN v.valid |->
                                         [data |-> v.valid[i].metric_type,
                                          errors |-> <<Err("Storage error", "", -1)>>]],
                       "")
          ELSE Outcome(CountKeys, wr.value.success_count,
                       wr.value.failure_count,
                       v.failures \o wr.value.failures, "")]

\* lines 176-193: wr is what with_retry(self.storage_adapter.batch_store, ...) did
MergeStorage(base, v, wr, script) ==
    [base EXCEPT
       !.attempts = Attempts(script, wr),
       !.result =
          IF wr.raised
          THEN Outcome(CountKeys, 0, v.failure_count + Len(v.valid),
                       v.failures \o [i \in DOMAIN v.valid |->
                                         [data |-> v.valid[i].metric_type,
                                          errors |-> <<Err("Storage error", "", -1)>>]],
                       "")
          ELSE Outcome(CountKeys, wr.value.success_count,
                       v.failure_count + wr.value.failure_count,
                       v.failures \o wr.value.failures, "")]

\* lines 174-195: v is what the validation loop left
StoreValid(v, script) ==
    LET base == [raised |-> v.raised, cache |-> v.cache, validated |-> v.validated,
                 valid |-> v.valid, attempts |-> <<>>,
                 result |-> Outcome(CountKeys, 0, v.failure_count, v.failures, "")]
    IN IF v.raised \/ v.valid = <<>> THEN base
       ELSE MergeStorage(base, v,
                WithRetry([i \in DOMAIN script |-> BatchStoreOutcome(script[i], v.valid)],
                          PipeRetryCount, RetryDelay, RetryBackoff),
                script)

\* lines 135-172: the whole validation loop
ValidateBatch(batch, cache, t) ==
    ValidateLoop(batch, 1, t,
                 [raised |-> FALSE, cache |-> cache, valid |-> <<>>,
                  failure_count |-> 0, failures |-> <<>>, validated |-> <<>>])

\* [raised, result, cache, validated, valid, attempts]
ProcessMetricsBatch(batch, cache, t, script) ==
    StoreValid(ValidateBatch(batch, cache, t), script)

(***************************************************************************)
(* BatchProcessor: the two flush triggers of add_item.                     *)
(***************************************************************************)
\* a size trigger that fires at twice the batch size
SizeTrigger_Double(its, batch_size) == Len(its) >= 2 * batch_size

\* a size trigger that waits for one item more
SizeTrigger_Late(its, batch_size) == Len(its) > batch_size

\* len(self.items) >= self.batch_size
SizeTrigger(its, batch_size) == Len(its) >= batch_size

\* a time trigger that waits until more than the timeout has elapsed
TimeTrigger_Strict(its, t, last_process_time, batch_timeout) ==
    t - last_process_time > batch_timeout /\ its # <<>>

\* current_time - self.last_process_time >= self.batch_timeout and self.items
TimeTrigger(its, t, last_process_time, batch_timeout) ==
    t - last_process_time >= batch_timeout /\ its # <<>>

(***************************************************************************)
(* The pipeline's accumulator, its flush function being                    *)
(* _process_metrics_batch.  A flush is logged as                           *)
(* [batch, validated, valid, attempts, raised, result].                    *)
(***************************************************************************)
\* a _process_batch that reports no failed item when the batch function raised
FlushOutcome_NoFailures(its, f) ==
    IF f.raised
    THEN Outcome({"success_count", "failure_count", "error"}, 0, 0, <<>>, "TypeError")
    ELSE f.result

\* _process_batch, lines 90-95: the outcome of the batch function f, or the
\* synthetic outcome when it raised
FlushOutcome(its, f) ==
    IF f.raised
    THEN Outcome({"success_count", "failure_count", "error"}, 0, Len(its), <<>>,
                 "TypeError")
    ELSE f.result

\* _process_batch, lines 86-95, f being what the batch function did
Flushed(its, t, f, trigger) ==
    [flushed |-> TRUE, result |-> FlushOutcome(its, f), cache |-> f.cache,
     items |-> <<>>, lpt |-> t, trigger |-> trigger,
     entry |-> <<[batch |-> its, validated |-> f.validated, valid |-> f.valid,
                  attempts |-> f.attempts, raised |-> f.raised,
                  result |-> FlushOutcome(its, f)]>>]

\* nothing is flushed: the empty result
NotFlushed(cache, its, lpt) ==
    [flushed |-> FALSE, result |-> EmptyResult, cache |-> cache, items |-> its,
     lpt |-> lpt, trigger |-> "none", entry |-> <<>>]

\* the storage behaviours a flush can meet, v being what the validation loop
\* left: the storage is reached only when some record is valid
BatchScripts(v) ==
    IF v.raised \/ v.valid = <<>> THEN {DefaultScript}
    ELSE StorageScripts(PipeRetryCount)

\* the flushes of its at time t, one for each behaviour of the storage
FlushesOf(v, its, t, trigger) ==
    {Flushed(its, t, StoreValid(v, script), trigger) : script \in BatchScripts(v)}

\* the first trigger of add_item that holds of the pending list its1
Trigger(its1, t, lpt) ==
    IF SizeTrigger(its1, PipeBatchSize) THEN "size"
    ELSE IF TimeTrigger(its1, t, lpt, PipeInterval) THEN "time"
    ELSE "none"

\* BatchProcessor._process_batch at time t: the set of
\* [flushed, result, cache, items, lpt, trigger, entry] it can end in
PipeFlush(cache, its, lpt, t, trigger) ==
    IF its = <<>> \/ trigger = "none" THEN {NotFlushed(cache, its, lpt)}
    ELSE FlushesOf(ValidateBatch(its, cache, t), its, t, trigger)

\* an add_item that puts the item in front of the pending list
PipeAddItem_Prepend(cache, its, lpt, t, item) ==
    PipeFlush(cache, <<item>> \o its, lpt, t, Trigger(<<item>> \o its, t, lpt))

\* BatchProcessor.add_item(item) at time t
PipeAddItem(cache, its, lpt, t, item) ==
    PipeFlush(cache, Append(its, item), lpt, t, Trigger(Append(its, item), t, lpt))

(***************************************************************************)
(* State of the accumulator and of its tasks (SpecBP).  A task is named    *)
(* <<kind, index>>: "c" an add_item caller, "t" a background timer task,   *)
(* "s" the caller of stop(), "f" the caller of the unlocked forced flush   *)
(* (MetricsPipeline.process_batch, processor.py 122).                      *)
(***************************************************************************)
\* item ids handed to add_item in one run
MaxItems == 3
\* timer tasks created in one run
MaxTimers == 1
\* concurrent add_item callers
NumCallers == 1
\* last instant of the accumulator's clock
MaxBNow == 1
\* BatchProcessor(batch_size=...)
BPBatchSize == 2
\* BatchProcessor(batch_timeout=...)
BPBatchTimeout == 1

Callers == {<<"c", i>> : i \in 1..NumCallers}

\* timer tasks one run of the start/stop lifecycle (SpecLife) can create
LifeTimers == 2

\* item ids handed to add_item in one run of SpecLife
LifeItems == 2

Timers == {<<"t", i>> : i \in 1..(IF LifeTimers > MaxTimers THEN LifeTimers ELSE MaxTimers)}

Stopper == <<"s", 1>>

Forcer == <<"f", 1>>

NoTask == <<"none", 0>>

\* an add_item call that has not returned
NoReturn == [kind |-> "none", flush |-> 0]

Tasks == Callers \cup Timers \cup {Stopper, Forcer}

VARIABLES
    items,       \* BatchProcessor.items
    running,     \* BatchProcessor.running
    task,        \* BatchProcessor.task (NoTask for None)
    lock,        \* holder of BatchProcessor.processing_lock (NoTask when free)
    last_process_time, \* BatchProcessor.last_process_time
    bnow,        \* time.time()
    bpc,         \* position of each task
    bcancel,     \* timer tasks whose cancel() was requested and not yet delivered
    btime,       \* current_time a timer task read before it waited for the lock
                 \* (0 once it is used or the task is gone)
    bitem,       \* the item of the add_item call in progress of each caller
    bawait,      \* the task stop() awaits
    binflight,   \* the invocation of the batch function each task awaits (0: none)
    bhanded,     \* the invocations of the batch function, in order:
                 \* [batch, by, status, outcome], status "running", "returned",
                 \* "raised" or "cancelled"; outcome is what _process_batch
                 \* returned once the invocation is over
    bappended,   \* items appended to the pending list so far, in the order of
                 \* their appends
    bnext,       \* next item id
    bstop,       \* the last stop() call: what was appended when it was called,
                 \* and the pending list and handed items when it returned
    bret,        \* what the last add_item call of each caller returned:
                 \* [kind, flush], kind "none" while it has not returned,
                 \* "empty" for {}, "outcome" for the outcome of invocation flush
    bqueue,      \* MetricsPipeline._queue: the records waiting in it
    bproc        \* MetricsPipeline._processing_task and the last stop_processing()
                 \* call: [task, stop, snap, waiting, pending, handed]

qVars == <<bqueue, bproc>>

bpVars == <<items, running, task, lock, last_process_time, bnow, bpc, bcancel, btime,
            bitem, bawait, binflight, bhanded, bappended,
            bnext, bstop, bret, bqueue, bproc>>

(***************************************************************************)
(* State of the pipeline (SpecPipe).                                       *)
(***************************************************************************)
VARIABLES
    pcache,    \* MetricsPipeline._cache.cache
    pnow,      \* time.time()
    pitems,    \* MetricsPipeline._batch_processor.items
    plpt,      \* MetricsPipeline._batch_processor.last_process_time
    pstarted,  \* MetricsPipeline._processing_task is not None
    psubmitted,\* records submitted so far
    ppc,       \* position of the caller: "idle", "adding" inside process_batch,
               \* "returned" when the operation logged in plast is over
    plast      \* the operation in progress or last completed, with what it did

(***************************************************************************)
(* State of the utilities exercised on their own: a call of with_retry     *)
(* (SpecRetry).                                                            *)
(***************************************************************************)
VARIABLES
    rcall,     \* the last call of with_retry: its arguments and what it did
    ccache,    \* SimpleCache.cache of the cache exercised on its own
    cnow,      \* time.time()
    clast,     \* the last operation on that cache: the cache it found, its
               \* arguments and what it returned
    hcall      \* the last call of MetricsPipeline.health_check: what each
               \* collaborator did and what the call returned

cacheVars == <<ccache, cnow, clast>>

libVars == <<rcall, ccache, cnow, clast, hcall>>

vars == <<rcall, ccache, cnow, clast, hcall,
         pcache, pnow, pitems, plpt, pstarted, psubmitted, ppc, plast,
         items, running, task, lock, last_process_time, bnow, bpc, bcancel, btime,
         bitem, bawait, binflight, bhanded, bappended,
         bnext, bstop, bret, bqueue, bproc>>

pipeVars == <<pcache, pnow, pitems, plpt, pstarted, psubmitted, ppc, plast>>

\* the log of an operation: its records (input), whether it is over (done),
\* raised or what it returned (ret of process_metrics, result of the others),
\* the validate calls (validated) and store invocations (attempts) of
\* process_metrics, whether the cache held an unexpired validation result when
\* it was called (hit), the flushes of the accumulator it caused with the
\* trigger of each add_item, and what was pending when it was called
OpLog(op, input) ==
    [op |-> op, input |-> input, idx |-> 1, done |-> FALSE, raised |-> FALSE,
     ret |-> FALSE, result |-> EmptyResult, validated |-> 0, hit |-> FALSE,
     attempts |-> <<>>, flushes |-> <<>>, triggers |-> <<>>, pre_items |-> <<>>]

PipeInit ==
    /\ pcache = <<>>
    /\ pnow = 0
    /\ pitems = <<>>
    /\ plpt = 0
    /\ pstarted = FALSE
    /\ psubmitted = 0
    /\ ppc = "idle"
    /\ plast = OpLog("none", <<>>)

\* time passes
PipeTick ==
    /\ ppc # "returned"
    /\ pnow < MaxNow
    /\ pnow' = pnow + 1
    /\ UNCHANGED <<pcache, pitems, plpt, pstarted, psubmitted, ppc, plast>>
    /\ UNCHANGED <<bpVars, libVars>>

\* process_metrics has done o
ProcessMetricsDone(o, r) ==
    /\ pcache' = o.cache
    /\ plast' = [OpLog("process_metrics", <<r>>) EXCEPT
                    !.done = TRUE, !.raised = o.raised, !.ret = o.ret,
                    !.validated = IF o.validated THEN 1 ELSE 0,
                    !.hit = Fresh(pcache, CacheKey(r), pnow),
                    !.attempts = o.attempts]

\* await pipeline.process_metrics(r)
ProcessMetrics(r) ==
    /\ ppc = "idle"
    /\ psubmitted < MaxSubmitted
    /\ psubmitted' = psubmitted + 1
    /\ \E o \in ProcessMetricsOutcomes(ValidateCached(pcache, r, pnow), r) :
          ProcessMetricsDone(o, r)
    /\ ppc' = "returned"
    /\ UNCHANGED <<pnow, pitems, plpt, pstarted>>
    /\ UNCHANGED <<bpVars, libVars>>

\* the accumulator has done a (an add_item or a flush)
AccumulatorDone(a) ==
    /\ pcache' = a.cache
    /\ pitems' = a.items
    /\ plpt' = a.lpt

\* pipeline.process_batch(metrics_batch) is called.  The records of the batch
\* are drawn one by one, as the loop reads them: plast.input is the part of
\* metrics_batch read so far and the whole of it when the call is done.
ProcessBatchBegin ==
    /\ ppc = "idle"
    /\ ppc' = "adding"
    /\ plast' = [OpLog("process_batch", <<>>) EXCEPT !.pre_items = pitems]
    /\ UNCHANGED <<pcache, pnow, pitems, plpt, pstarted, psubmitted>>
    /\ UNCHANGED <<bpVars, libVars>>

ProcessBatchAdded(a, r) ==
    /\ AccumulatorDone(a)
    /\ plast' = [plast EXCEPT !.input = Append(@, r),
                              !.idx = @ + 1,
                              !.flushes = @ \o a.entry,
                              !.triggers = Append(@, a.trigger)]

\* one iteration of process_batch's loop: add_item(r), r the next record
ProcessBatchAdd(r) ==
    /\ ppc = "adding"
    /\ Len(plast.input) < MaxBatchLen
    /\ psubmitted < MaxSubmitted
    /\ psubmitted' = psubmitted + 1
    /\ \E a \in PipeAddItem(pcache, pitems, plpt, pnow, r) : ProcessBatchAdded(a, r)
    /\ UNCHANGED <<pnow, pstarted, ppc>>
    /\ UNCHANGED <<bpVars, libVars>>

ProcessBatchForced(f) ==
    /\ AccumulatorDone(f)
    /\ plast' = [plast EXCEPT !.done = TRUE, !.result = f.result,
                              !.flushes = @ \o f.entry]

\* the loop is over: return await self._batch_processor._process_batch()
ProcessBatchForce ==
    /\ ppc = "adding"
    /\ \E f \in PipeFlush(pcache, pitems, plpt, pnow, "forced") : ProcessBatchForced(f)
    /\ ppc' = "returned"
    /\ UNCHANGED <<pnow, pstarted, psubmitted>>
    /\ UNCHANGED <<bpVars, libVars>>

\* start_processing()
StartProcessing ==
    /\ ppc = "idle"
    /\ ~pstarted
    /\ pstarted' = TRUE
    /\ UNCHANGED <<pcache, pnow, pitems, plpt, psubmitted, ppc, plast>>
    /\ UNCHANGED <<bpVars, libVars>>

\* an operation on the accumulator outside process_batch has done a
BackgroundDone(a, op, input) ==
    /\ AccumulatorDone(a)
    /\ plast' = [OpLog(op, input) EXCEPT
                    !.done = TRUE, !.result = a.result, !.flushes = a.entry,
                    !.triggers = <<a.trigger>>, !.pre_items = pitems]

\* one iteration of _process_queue: add_item(r) for a record r of the queue
QueueConsume(r) ==
    /\ ppc = "idle"
    /\ pstarted
    /\ psubmitted < MaxSubmitted
    /\ psubmitted' = psubmitted + 1
    /\ \E a \in PipeAddItem(pcache, pitems, plpt, pnow, r) :
          BackgroundDone(a, "consume", <<r>>)
    /\ ppc' = "returned"
    /\ UNCHANGED <<pnow, pstarted>>
    /\ UNCHANGED <<bpVars, libVars>>

\* one iteration of _background_processor that finds the timeout elapsed
TimerFlush ==
    /\ ppc = "idle"
    /\ pstarted
    /\ TimeTrigger(pitems, pnow, plpt, PipeInterval)
    /\ \E f \in PipeFlush(pcache, pitems, plpt, pnow, "time") : BackgroundDone(f, "timer", <<>>)
    /\ ppc' = "returned"
    /\ UNCHANGED <<pnow, pstarted, psubmitted>>
    /\ UNCHANGED <<bpVars, libVars>>

\* stop_processing(): the accumulator's final flush
StopProcessing ==
    /\ ppc = "idle"
    /\ pstarted
    /\ \E f \in PipeFlush(pcache, pitems, plpt, pnow, "stop") :
          BackgroundDone(f, "stop_processing", <<>>)
    /\ pstarted' = FALSE
    /\ ppc' = "returned"
    /\ UNCHANGED <<pnow, psubmitted>>
    /\ UNCHANGED <<bpVars, libVars>>

\* the operation logged in plast is over and its outcome taken: the caller
\* (or the background task) goes on
Resume ==
    /\ ppc = "returned"
    /\ ppc' = "idle"
    /\ plast' = OpLog("none", <<>>)
    /\ UNCHANGED <<pcache, pnow, pitems, plpt, pstarted, psubmitted>>
    /\ UNCHANGED <<bpVars, libVars>>

PipeNext ==
    \/ PipeTick
    \/ Resume
    \/ \E r \in RawRecords : ProcessMetrics(r)
    \/ ProcessBatchBegin
    \/ \E r \in RawRecords : ProcessBatchAdd(r)
    \/ ProcessBatchForce
    \/ StartProcessing
    \/ \E r \in RawRecords : QueueConsume(r)
    \/ TimerFlush
    \/ StopProcessing

(***************************************************************************)
(* The accumulator's tasks (SpecBP).                                       *)
(***************************************************************************)
SeqRange(q) == {q[i] : i \in DOMAIN q}

\* items handed to the batch function so far
HandedItems(h) == UNION {SeqRange(h[i].batch) : i \in DOMAIN h}

BPInit ==
    /\ items = <<>>
    /\ running = FALSE
    /\ task = NoTask
    /\ lock = NoTask
    /\ last_process_time = 0
    /\ bnow = 0
    /\ bpc = [k \in Tasks |-> IF k \in Timers THEN "unborn" ELSE "idle"]
    /\ bcancel = {}
    /\ btime = [k \in Timers |-> 0]
    /\ bitem = [k \in Callers |-> 0]
    /\ bawait = NoTask
    /\ binflight = [k \in Tasks |-> 0]
    /\ bhanded = <<>>
    /\ bappended = <<>>
    /\ bnext = 1
    /\ bstop = [called |-> FALSE, returned |-> FALSE, snap |-> {},
                pending |-> <<>>, handed |-> {}]
    /\ bret = [k \in Callers |-> NoReturn]
    /\ bqueue = <<>>
    /\ bproc = [task |-> "none", stop |-> "idle", stop2 |-> "idle", snap |-> {},
                waiting |-> <<>>, pending |-> <<>>, handed |-> {}]

\* time passes
BPTick ==
    /\ bnow < MaxBNow
    /\ bnow' = bnow + 1
    /\ UNCHANGED <<items, running, task, lock, last_process_time, bpc, bcancel, btime,
                   bitem, bawait, binflight, bhanded, bappended, bnext, bstop>>
    /\ UNCHANGED <<bret, pipeVars, libVars, qVars>>

\* a _process_batch that hands the pending list over and leaves it in place
HandFlush_KeepsPending(who, its) ==
    /\ items' = its
    /\ last_process_time' = bnow
    /\ bhanded' = Append(bhanded, [batch |-> its, by |-> who, status |-> "running",
                                   outcome |-> EmptyResult])
    /\ binflight' = [binflight EXCEPT ![who] = Len(bhanded) + 1]

\* _process_batch, lines 86-91, by task who on the pending list its (not
\* empty): the list is swapped for an empty one and handed to the batch function
HandFlush(who, its) ==
    /\ items' = <<>>
    /\ last_process_time' = bnow
    /\ bhanded' = Append(bhanded, [batch |-> its, by |-> who, status |-> "running",
                                   outcome |-> EmptyResult])
    /\ binflight' = [binflight EXCEPT ![who] = Len(bhanded) + 1]

\* _process_batch, lines 92-95: the batch function of task who returns, or
\* raises an Exception that is turned into the synthetic outcome
FinishFlush(who, raises) ==
    /\ bhanded' = [bhanded EXCEPT
                      ![binflight[who]].status = IF raises THEN "raised" ELSE "returned",
                      ![binflight[who]].outcome =
                          FlushOutcome(bhanded[binflight[who]].batch,
                                       [raised |-> raises,
                                        result |-> Outcome(CountKeys,
                                                           Len(bhanded[binflight[who]].batch),
                                                           0, <<>>, "")])]
    /\ binflight' = [binflight EXCEPT ![who] = 0]

\* an add_item that returns the outcome of the latest flush when it
\* triggers none
AddItemReturn_LastOutcome(f, latest) ==
    IF f = 0 /\ latest = 0 THEN [kind |-> "empty", flush |-> 0]
    ELSE [kind |-> "outcome", flush |-> IF f = 0 THEN latest ELSE f]

\* what add_item returns: the outcome of the invocation f it awaited (lines
\* 68-69 and 72-73), or {} when it awaited none (f = 0, line 74); latest is
\* the latest invocation by anyone
AddItemReturn(f, latest) ==
    IF f = 0 THEN [kind |-> "empty", flush |-> 0]
    ELSE [kind |-> "outcome", flush |-> f]

\* an add_item that puts its item in front of the pending list
PendingWith_InFront(its, item) == <<item>> \o its

\* self.items.append(item), line 66
PendingWith(its, item) == Append(its, item)

\* add_item, lines 65-74, by caller c holding the lock
AddBody(c, item) ==
    LET its1 == PendingWith(items, item)
    IN /\ bappended' = Append(bappended, item)
       /\ IF SizeTrigger(its1, BPBatchSize)
             \/ TimeTrigger(its1, bnow, last_process_time, BPBatchTimeout)
          THEN /\ HandFlush(c, its1)
               /\ lock' = c
               /\ bpc' = [bpc EXCEPT ![c] = "flushing"]
               /\ bret' = [bret EXCEPT ![c] = NoReturn]
          ELSE /\ items' = its1
               /\ lock' = NoTask
               /\ bpc' = [bpc EXCEPT ![c] = "idle"]
               /\ bret' = [bret EXCEPT ![c] = AddItemReturn(0, Len(bhanded))]
               /\ UNCHANGED <<last_process_time, bhanded, binflight>>

\* add_item(item) is called by c: it takes the lock or waits for it
AddCall(c) ==
    /\ bpc[c] = "idle"
    /\ bnext <= MaxItems
    /\ bnext' = bnext + 1
    /\ bitem' = [bitem EXCEPT ![c] = bnext]
    /\ IF lock = NoTask
       THEN AddBody(c, bnext)
       ELSE /\ bpc' = [bpc EXCEPT ![c] = "wait_lock"]
            /\ bret' = [bret EXCEPT ![c] = NoReturn]
            /\ UNCHANGED <<items, lock, last_process_time, bhanded, binflight, bappended>>
    /\ UNCHANGED <<running, task, bnow, bcancel, btime, bawait, bstop>>
    /\ UNCHANGED <<pipeVars, libVars, qVars>>

\* c, waiting in add_item, gets the lock
AddAcquire(c) ==
    /\ bpc[c] = "wait_lock"
    /\ lock = NoTask
    /\ AddBody(c, bitem[c])
    /\ UNCHANGED <<running, task, bnow, bcancel, btime, bitem, bawait, bnext, bstop>>
    /\ UNCHANGED <<pipeVars, libVars, qVars>>

\* the flush of c's add_item ends; add_item releases the lock and returns
AddFlushComplete(c, raises) ==
    /\ bpc[c] = "flushing"
    /\ FinishFlush(c, raises)
    /\ lock' = NoTask
    /\ bpc' = [bpc EXCEPT ![c] = "idle"]
    /\ bret' = [bret EXCEPT ![c] = AddItemReturn(binflight[c], Len(bhanded))]
    /\ UNCHANGED <<items, running, task, last_process_time, bnow, bcancel, btime, bitem,
                   bawait, bappended, bnext, bstop>>
    /\ UNCHANGED <<pipeVars, libVars, qVars>>

\* a start() that never returns early
StartReturnsEarly_Never(r) == FALSE

\* start(), lines 99-100: `if self.running: return`
StartReturnsEarly(r) == r

\* start(): a new timer task, unless running; n bounds the tasks created
Start(n) ==
    /\ ~StartReturnsEarly(running)
    /\ \E t \in Timers :
          /\ t[2] <= n
          /\ bpc[t] = "unborn"
          /\ \A u \in Timers : u[2] < t[2] => bpc[u] # "unborn"
          /\ task' = t
          /\ bpc' = [bpc EXCEPT ![t] = "ready"]
    /\ running' = TRUE
    /\ UNCHANGED <<items, lock, last_process_time, bnow, bcancel, btime, bitem, bawait,
                   binflight, bhanded, bappended, bnext, bstop>>
    /\ UNCHANGED <<bret, pipeVars, libVars>>

\* a timer loop that takes the lock and never flushes
TimerBody_NeverFlush(t, current_time) ==
    /\ lock' = NoTask
    /\ bpc' = [bpc EXCEPT ![t] = "ready"]
    /\ UNCHANGED <<items, last_process_time, bhanded, binflight>>

\* _background_processor, lines 129-130, by timer task t holding the lock,
\* with the current_time it read before taking it
TimerBody(t, current_time) ==
    IF TimeTrigger(items, current_time, last_process_time, BPBatchTimeout)
    THEN /\ HandFlush(t, items)
         /\ lock' = t
         /\ bpc' = [bpc EXCEPT ![t] = "flushing"]
    ELSE /\ lock' = NoTask
         /\ bpc' = [bpc EXCEPT ![t] = "ready"]
         /\ UNCHANGED <<items, last_process_time, bhanded, binflight>>

\* timer task t starts or wakes from its sleep: one test of `while self.running`
TimerRun(t) ==
    /\ bpc[t] = "ready"
    /\ t \notin bcancel
    /\ IF ~running
       THEN /\ bpc' = [bpc EXCEPT ![t] = "done"]
            /\ UNCHANGED <<items, lock, last_process_time, bhanded, binflight, btime>>
       ELSE IF lock = NoTask
       THEN /\ TimerBody(t, bnow)
            /\ UNCHANGED btime
       ELSE /\ bpc' = [bpc EXCEPT ![t] = "wait_lock"]
            /\ btime' = [btime EXCEPT ![t] = bnow]
            /\ UNCHANGED <<items, lock, last_process_time, bhanded, binflight>>
    /\ UNCHANGED <<running, task, bnow, bcancel, bitem, bawait, bappended, bnext, bstop>>
    /\ UNCHANGED <<bret, pipeVars, libVars, qVars>>

\* timer task t, waiting for the lock, gets it
TimerAcquire(t) ==
    /\ bpc[t] = "wait_lock"
    /\ t \notin bcancel
    /\ lock = NoTask
    /\ TimerBody(t, btime[t])
    /\ btime' = [btime EXCEPT ![t] = 0]
    /\ UNCHANGED <<running, task, bnow, bcancel, bitem, bawait, bappended, bnext,
                   bstop>>
    /\ UNCHANGED <<bret, pipeVars, libVars, qVars>>

\* the flush of timer task t ends; it releases the lock and sleeps
TimerFlushComplete(t, raises) ==
    /\ bpc[t] = "flushing"
    /\ t \notin bcancel
    /\ FinishFlush(t, raises)
    /\ lock' = NoTask
    /\ bpc' = [bpc EXCEPT ![t] = "ready"]
    /\ UNCHANGED <<items, running, task, last_process_time, bnow, bcancel, btime, bitem,
                   bawait, bappended, bnext, bstop>>
    /\ UNCHANGED <<bret, pipeVars, libVars, qVars>>

\* the cancellation of timer task t is delivered where the task is suspended:
\* in its sleep, in the lock's queue, or inside the batch function, whose
\* CancelledError no `except Exception` catches
TimerCancelled(t) ==
    /\ t \in bcancel
    /\ bpc[t] \in {"ready", "wait_lock", "flushing"}
    /\ bcancel' = bcancel \ {t}
    /\ bpc' = [bpc EXCEPT ![t] = "done"]
    /\ IF bpc[t] = "flushing"
       THEN /\ bhanded' = [bhanded EXCEPT ![binflight[t]].status = "cancelled"]
            /\ binflight' = [binflight EXCEPT ![t] = 0]
            /\ lock' = NoTask
       ELSE UNCHANGED <<bhanded, binflight, lock>>
    /\ btime' = [btime EXCEPT ![t] = 0]
    /\ UNCHANGED <<items, running, task, last_process_time, bnow, bitem, bawait,
                   bappended, bnext, bstop>>
    /\ UNCHANGED <<bret, pipeVars, libVars, qVars>>

\* a stop() without its final flush
StopFinalFlushNeeded_Never(its) == FALSE

\* stop(), line 120: `if self.items`
StopFinalFlushNeeded(its) == its # <<>>

\* stop() returns
StopReturn(pending, handed) ==
    /\ bpc' = [bpc EXCEPT ![Stopper] = "idle"]
    /\ bstop' = [bstop EXCEPT !.returned = TRUE, !.pending = pending,
                              !.handed = HandedItems(handed)]

\* stop(), lines 119-121, once the lock is taken
StopBody ==
    IF StopFinalFlushNeeded(items)
    THEN /\ HandFlush(Stopper, items)
         /\ lock' = Stopper
         /\ bpc' = [bpc EXCEPT ![Stopper] = "flushing"]
         /\ UNCHANGED bstop
    ELSE /\ StopReturn(items, bhanded)
         /\ lock' = NoTask
         /\ UNCHANGED <<items, last_process_time, bhanded, binflight>>

\* a stop() that does not cancel the timer task
StopCancels_Nothing(t, cancels) == cancels

\* stop(), lines 111-112: `if self.task: self.task.cancel()`; the request
\* stays pending until it is delivered to a task that has not ended
StopCancels(t, cancels) ==
    IF t # NoTask /\ bpc[t] # "done" THEN cancels \cup {t} ELSE cancels

\* stop() is called on a running accumulator: lines 107-114
StopCall ==
    /\ bpc[Stopper] = "idle"
    /\ running
    /\ running' = FALSE
    /\ bcancel' = StopCancels(task, bcancel)
    /\ bawait' = task
    /\ bpc' = [bpc EXCEPT ![Stopper] = "await_task"]
    /\ bstop' = [called |-> TRUE, returned |-> FALSE, snap |-> SeqRange(bappended),
                 pending |-> <<>>, handed |-> {}]
    /\ UNCHANGED <<items, task, lock, last_process_time, bnow, btime, bitem, binflight,
                   bhanded, bappended, bnext>>
    /\ UNCHANGED <<bret, pipeVars, libVars>>

\* the awaited timer task has ended: stop() goes on to the lock
StopAwaited ==
    /\ bpc[Stopper] = "await_task"
    /\ bawait = NoTask \/ bpc[bawait] = "done"
    /\ IF lock = NoTask
       THEN StopBody
       ELSE /\ bpc' = [bpc EXCEPT ![Stopper] = "wait_lock"]
            /\ UNCHANGED <<items, lock, last_process_time, bhanded, binflight, bstop>>
    /\ UNCHANGED <<running, task, bnow, bcancel, btime, bitem, bawait, bappended, bnext>>
    /\ UNCHANGED <<bret, pipeVars, libVars, qVars>>

\* stop(), waiting for the lock, gets it
StopAcquire ==
    /\ bpc[Stopper] = "wait_lock"
    /\ lock = NoTask
    /\ StopBody
    /\ UNCHANGED <<running, task, bnow, bcancel, btime, bitem, bawait, bappended, bnext>>
    /\ UNCHANGED <<bret, pipeVars, libVars, qVars>>

\* the final flush of stop() ends; stop() releases the lock and returns
StopFlushComplete(raises) ==
    /\ bpc[Stopper] = "flushing"
    /\ FinishFlush(Stopper, raises)
    /\ lock' = NoTask
    /\ StopReturn(items, bhanded)
    /\ UNCHANGED <<items, running, task, last_process_time, bnow, bcancel, btime, bitem,
                   bawait, bappended, bnext>>
    /\ UNCHANGED <<bret, pipeVars, libVars, qVars>>

\* process_batch's forced flush: _process_batch() called without the lock
ForceCall ==
    /\ bpc[Forcer] = "idle"
    /\ items # <<>>
    /\ HandFlush(Forcer, items)
    /\ bpc' = [bpc EXCEPT ![Forcer] = "flushing"]
    /\ UNCHANGED <<running, task, lock, bnow, bcancel, btime, bitem, bawait, bappended,
                   bnext, bstop>>
    /\ UNCHANGED <<bret, pipeVars, libVars, qVars>>

\* the forced flush ends
ForceComplete(raises) ==
    /\ bpc[Forcer] = "flushing"
    /\ FinishFlush(Forcer, raises)
    /\ bpc' = [bpc EXCEPT ![Forcer] = "idle"]
    /\ UNCHANGED <<items, running, task, lock, last_process_time, bnow, bcancel, btime,
                   bitem, bawait, bappended, bnext, bstop>>
    /\ UNCHANGED <<bret, pipeVars, libVars, qVars>>

\* the callers of add_item are interchangeable coroutines: a new call is made
\* by the first caller that is not inside a call
FirstIdle(c) == \A d \in Callers : d[2] < c[2] => bpc[d] # "idle"

BPNext ==
    \/ BPTick
    \/ \E c \in Callers : FirstIdle(c) /\ AddCall(c)
    \/ \E c \in Callers : AddAcquire(c)
    \/ \E c \in Callers, raises \in BOOLEAN : AddFlushComplete(c, raises)
    \/ Start(MaxTimers) /\ UNCHANGED qVars
    \/ \E t \in Timers : TimerRun(t)
    \/ \E t \in Timers : TimerAcquire(t)
    \/ \E t \in Timers, raises \in BOOLEAN : TimerFlushComplete(t, raises)
    \/ \E t \in Timers : TimerCancelled(t)
    \/ StopCall /\ UNCHANGED qVars
    \/ StopAwaited
    \/ StopAcquire
    \/ \E raises \in BOOLEAN : StopFlushComplete(raises)
    \/ ForceCall
    \/ \E raises \in BOOLEAN : ForceComplete(raises)

(***************************************************************************)
(* with_retry on its own (SpecRetry): a call with retries, delay and        *)
(* backoff of the caller's choice on an operation given by the outcome of   *)
(* each of its invocations.  Delays are counted in units of the delay's     *)
(* resolution.                                                              *)
(***************************************************************************)
\* largest `retries`
MaxRetries == 2
\* largest `delay`
MaxDelay == 2
\* largest `backoff`
MaxBackoff == 2

\* what one invocation of the operation can do
Outcomes == {Returns("r1"), Raises("e1"), Raises("e2"), RaisesOther("k1")}

RetryInit ==
    rcall = [called |-> FALSE, script |-> <<>>, retries |-> 0, delay |-> 0,
             backoff |-> 0,
             out |-> [raised |-> FALSE, value |-> "", calls |-> 0, waits |-> <<>>]]

\* await with_retry(func, retries=retries, delay=delay, backoff=backoff)
RetryCall(script, retries, delay, backoff) ==
    /\ rcall' = [called |-> TRUE, script |-> script, retries |-> retries,
                 delay |-> delay, backoff |-> backoff,
                 out |-> WithRetry(script, retries, delay, backoff)]
    /\ UNCHANGED <<pipeVars, bpVars, cacheVars, hcall>>

RetryNext ==
    \E retries \in 0..MaxRetries, delay \in 1..MaxDelay, backoff \in 1..MaxBackoff :
        \E script \in [1..(retries + 1) -> Outcomes] :
            RetryCall(script, retries, delay, backoff)

(***************************************************************************)
(* SimpleCache on its own (SpecCache): a cache of capacity CacheCap and     *)
(* default ttl CacheTtl under get, set (with or without a ttl of its own),  *)
(* delete, clear and cleanup, while time passes.                            *)
(***************************************************************************)
\* SimpleCache(max_size=...)
CacheCap == 2
\* SimpleCache(ttl=...)
CacheTtl == 1
\* keys in use
MaxKeys == 3
\* last instant of the cache's clock
MaxCNow == 2

\* an operation's log
CacheLog(op, key, ret) ==
    [op |-> op, key |-> key, pre |-> ccache, now |-> cnow, ret |-> ret]

CacheInit ==
    /\ ccache = <<>>
    /\ cnow = 0
    /\ clast = [op |-> "none", key |-> 0, pre |-> <<>>, now |-> 0, ret |-> NoneVal]

\* time passes
CacheTick ==
    /\ clast.op = "none"
    /\ cnow < MaxCNow
    /\ cnow' = cnow + 1
    /\ clast' = CacheLog("tick", 0, NoneVal)
    /\ UNCHANGED <<ccache, pipeVars, bpVars, rcall, hcall>>

\* cache.get(key)
CacheGetOp(key) ==
    /\ clast.op = "none"
    /\ ccache' = CacheGet(ccache, key, cnow).cache
    /\ clast' = CacheLog("get", key, CacheGet(ccache, key, cnow).value)
    /\ UNCHANGED <<cnow, pipeVars, bpVars, rcall, hcall>>

\* cache.set(key, value, ttl); ttl is None or Some(n)
CacheSetOp(key, value, ttl) ==
    /\ clast.op = "none"
    /\ ccache' = CacheSet(ccache, key, value, cnow,
                          IF ttl # NoneVal THEN ttl[1] ELSE CacheTtl, CacheCap)
    /\ clast' = CacheLog("set", key, Some(value))
    /\ UNCHANGED <<cnow, pipeVars, bpVars, rcall, hcall>>

\* cache.delete(key)
CacheDeleteOp(key) ==
    /\ clast.op = "none"
    /\ ccache' = CacheDelete(ccache, key)
    /\ clast' = CacheLog("delete", key, NoneVal)
    /\ UNCHANGED <<cnow, pipeVars, bpVars, rcall, hcall>>

\* cache.clear()
CacheClearOp ==
    /\ clast.op = "none"
    /\ ccache' = <<>>
    /\ clast' = CacheLog("clear", 0, NoneVal)
    /\ UNCHANGED <<cnow, pipeVars, bpVars, rcall, hcall>>

\* cache.cleanup()
CacheCleanupOp ==
    /\ clast.op = "none"
    /\ ccache' = CacheCleanup(ccache, cnow).cache
    /\ clast' = CacheLog("cleanup", 0, Some(CacheCleanup(ccache, cnow).count))
    /\ UNCHANGED <<cnow, pipeVars, bpVars, rcall, hcall>>

\* the log of a finished operation is dropped
CacheResume ==
    /\ clast.op # "none"
    /\ clast' = [op |-> "none", key |-> 0, pre |-> <<>>, now |-> 0, ret |-> NoneVal]
    /\ UNCHANGED <<ccache, cnow, pipeVars, bpVars, rcall, hcall>>

CacheNext ==
    \/ CacheTick
    \/ \E key \in 1..MaxKeys : CacheGetOp(key)
    \/ \E key \in 1..MaxKeys, value \in {"v1", "v2"},
          ttl \in {NoneVal, Some(0)} :
          CacheSetOp(key, value, ttl)
    \/ \E key \in 1..MaxKeys : CacheDeleteOp(key)
    \/ CacheClearOp
    \/ CacheCleanupOp
    \/ CacheResume

(***************************************************************************)
(* MetricsPipeline.health_check (SpecHealth).  Each collaborator's         *)
(* health_check is given by its script: what each of its successive        *)
(* invocations does.  A report is [status, details]; what is raised is     *)
(* written as a report of status "raised" whose details are the error's.   *)
(***************************************************************************)
\* the statuses a collaborator reports
HealthStatuses == {"healthy", "degraded", "unhealthy", "unknown"}

\* a collaborator's report
Report(status) == [status |-> status, details |-> [key |-> "info", text |-> status]]

\* an exception of a collaborator's health_check
HealthError(e) == [status |-> "raised", details |-> [key |-> "error", text |-> e]]

\* the scripts of a collaborator: it reports at once, raises once and then
\* reports, or raises twice (what follows an invocation that returns is
\* never invoked and repeats it)
HealthScripts ==
    {<<Returns(Report(s)), Returns(Report(s))>> : s \in HealthStatuses}
    \cup {<<Raises(HealthError("e1")), Returns(Report(s))>> : s \in HealthStatuses}
    \cup {<<Raises(HealthError("e1")), Raises(HealthError("e2"))>>}

\* a health_check without its `except Exception`: what with_retry raises
\* reaches the caller
CollaboratorHealth_Propagates(script) ==
    LET out == WithRetry(script, 1, 1, RetryBackoff)
    IN [calls |-> out.calls,
        raised |-> out.raised,
        health |-> IF out.raised
                   THEN [status |-> "unhealthy", details |-> out.value.details]
                   ELSE out.value]

\* with_retry(adapter.health_check, retries=1, delay=0.5) under
\* `except Exception`: the collaborator's report, or 'unhealthy' with the
\* error's text; nothing is raised to health_check's caller
CollaboratorHealth(script) ==
    LET out == WithRetry(script, 1, 1, RetryBackoff)
    IN [calls |-> out.calls,
        raised |-> FALSE,
        health |-> IF out.raised
                   THEN [status |-> "unhealthy", details |-> out.value.details]
                   ELSE out.value]

\* an overall status that looks for 'degraded' first
OverallStatus_DegradedFirst(ingestion_health, storage_health) ==
    IF ingestion_health.status = "degraded" \/ storage_health.status = "degraded"
    THEN "degraded"
    ELSE IF ingestion_health.status = "unhealthy"
            \/ storage_health.status = "unhealthy"
         THEN "unhealthy"
         ELSE "healthy"

\* the overall status
OverallStatus(ingestion_health, storage_health) ==
    IF ingestion_health.status = "unhealthy" \/ storage_health.status = "unhealthy"
    THEN "unhealthy"
    ELSE IF ingestion_health.status = "degraded"
            \/ storage_health.status = "degraded"
         THEN "degraded"
         ELSE "healthy"

\* what health_check returns, given the health of the two collaborators,
\* the number of cache entries removed and the size of the queue
HealthReport(ingestion_health, storage_health, removed_entries, qsize, t) ==
    [status |-> OverallStatus(ingestion_health, storage_health),
     timestamp |-> t,
     details |-> [ingestion |-> ingestion_health,
                  storage |-> storage_health,
                  queue_size |-> qsize,
                  cache_entries_removed |-> removed_entries]]

\* the log of a call of health_check
HealthLog ==
    [called |-> FALSE, raised |-> FALSE, ingestion |-> <<>>, storage |-> <<>>,
     calls |-> [ingestion |-> 0, storage |-> 0],
     ret |-> HealthReport(Report("healthy"), Report("healthy"), 0, 0, 0)]

HealthInit == hcall = HealthLog

\* await pipeline.health_check()
HealthCheck(ingestion, storage) ==
    /\ ppc = "idle"
    /\ LET i == CollaboratorHealth(ingestion)
           s == CollaboratorHealth(storage)
           cleaned == CacheCleanup(pcache, pnow)
       IN IF i.raised \/ s.raised
          THEN \* the call is left where the exception is raised
               /\ pcache' = pcache
               /\ hcall' = [HealthLog EXCEPT
                               !.called = TRUE, !.raised = TRUE,
                               !.ingestion = ingestion, !.storage = storage,
                               !.calls = [ingestion |-> i.calls,
                                          storage |-> IF i.raised THEN 0
                                                      ELSE s.calls]]
          ELSE /\ pcache' = cleaned.cache
               /\ hcall' = [HealthLog EXCEPT
                               !.called = TRUE,
                               !.ingestion = ingestion, !.storage = storage,
                               !.calls = [ingestion |-> i.calls,
                                          storage |-> s.calls],
                               !.ret = HealthReport(i.health, s.health,
                                                    cleaned.count,
                                                    Len(bqueue), pnow)]
    /\ UNCHANGED <<pnow, pitems, plpt, pstarted, psubmitted, ppc, plast>>
    /\ UNCHANGED <<bpVars, rcall, cacheVars>>

(***************************************************************************)
(* Specifications.                                                         *)
(***************************************************************************)
Init == PipeInit /\ BPInit /\ RetryInit /\ CacheInit /\ HealthInit

SpecPipe == Init /\ [][PipeNext]_vars

SpecBP == Init /\ [][BPNext]_vars

\* time advances, every task that can take a step of its own is scheduled
\* (asyncio runs every ready task; the lock is handed to its waiters), and
\* the batch function returns
BPFairness ==
    /\ WF_vars(BPTick)
    /\ \A t \in Timers :
          /\ WF_vars(TimerRun(t))
          /\ WF_vars(TimerAcquire(t))
          /\ WF_vars(\E raises \in BOOLEAN : TimerFlushComplete(t, raises))
          /\ WF_vars(TimerCancelled(t))
    /\ \A c \in Callers :
          /\ WF_vars(AddAcquire(c))
          /\ WF_vars(\E raises \in BOOLEAN : AddFlushComplete(c, raises))
    /\ WF_vars(StopAwaited)
    /\ WF_vars(StopAcquire)
    /\ WF_vars(\E raises \in BOOLEAN : StopFlushComplete(raises))
    /\ WF_vars(\E raises \in BOOLEAN : ForceComplete(raises))

SpecBPLive == SpecBP /\ BPFairness

\* the start/stop lifecycle: start() and stop() in any interleaving with up
\* to LifeTimers timer tasks, time, and add_item calls for LifeItems items
LifeNext ==
    \/ BPTick
    \/ \E c \in Callers : bnext <= LifeItems /\ AddCall(c)
    \/ \E c \in Callers : AddAcquire(c)
    \/ \E c \in Callers, raises \in BOOLEAN : AddFlushComplete(c, raises)
    \/ Start(LifeTimers) /\ UNCHANGED qVars
    \/ \E t \in Timers : TimerRun(t)
    \/ \E t \in Timers : TimerAcquire(t)
    \/ \E t \in Timers, raises \in BOOLEAN : TimerFlushComplete(t, raises)
    \/ \E t \in Timers : TimerCancelled(t)
    \/ StopCall /\ UNCHANGED qVars
    \/ StopAwaited
    \/ StopAcquire
    \/ \E raises \in BOOLEAN : StopFlushComplete(raises)

SpecLife == Init /\ [][LifeNext]_vars

(***************************************************************************)
(* The pipeline's consumption loop (SpecQueue): start_processing(),        *)
(* stop_processing() and _process_queue over the accumulator's tasks. The   *)
(* consumer task is the add_item caller Consumer; records are item ids.     *)
(***************************************************************************)
Consumer == <<"c", 1>>

\* a record is put into MetricsPipeline._queue from outside
QueuePut ==
    /\ bnext <= MaxItems
    /\ bnext' = bnext + 1
    /\ bqueue' = Append(bqueue, bnext)
    /\ UNCHANGED <<items, running, task, lock, last_process_time, bnow, bpc, bcancel,
                   btime, bitem, bawait, binflight, bhanded, bappended, bstop, bret,
                   bproc>>
    /\ UNCHANGED <<pipeVars, libVars>>

\* start_processing(), processor.py 197-208
QueueStart ==
    /\ bproc.task = "none"
    /\ Start(MaxTimers)
    /\ bproc' = [bproc EXCEPT !.task = "live",
                              !.stop = IF @ \in {"returned", "raised"}
                                       THEN "idle" ELSE @]
    /\ UNCHANGED bqueue

\* _process_queue, lines 234-237: a record is taken from the queue and
\* add_item is called on it
QueueGet ==
    /\ bproc.task = "live"
    /\ bpc[Consumer] = "idle"
    /\ bqueue # <<>>
    /\ bqueue' = Tail(bqueue)
    /\ bitem' = [bitem EXCEPT ![Consumer] = Head(bqueue)]
    /\ IF lock = NoTask
       THEN AddBody(Consumer, Head(bqueue))
       ELSE /\ bpc' = [bpc EXCEPT ![Consumer] = "wait_lock"]
            /\ bret' = [bret EXCEPT ![Consumer] = NoReturn]
            /\ UNCHANGED <<items, lock, last_process_time, bhanded, binflight, bappended>>
    /\ UNCHANGED <<running, task, bnow, bcancel, btime, bawait, bnext, bstop, bproc>>
    /\ UNCHANGED <<pipeVars, libVars>>

\* the consumer, waiting in add_item, gets the lock
QueueAcquire == bproc.task = "live" /\ AddAcquire(Consumer)

\* the flush of the consumer's add_item ends
QueueFlushComplete(raises) == bproc.task = "live" /\ AddFlushComplete(Consumer, raises)

\* stop_processing(), lines 212-218: the call, up to the first suspension of
\* self._batch_processor.stop(); snap is the records queued for the pipeline
\* at that moment: waiting in the queue, taken from it and not yet appended,
\* or pending in the accumulator
QueueStop ==
    /\ bproc.task = "live"
    /\ bproc.stop # "stopping"
    /\ StopCall
    /\ bproc' = [bproc EXCEPT
                    !.stop = "stopping",
                    !.snap = SeqRange(bqueue) \cup SeqRange(items)
                             \cup (IF bpc[Consumer] = "wait_lock"
                                   THEN {bitem[Consumer]} ELSE {})]
    /\ UNCHANGED bqueue

\* stop_processing(), lines 221-223: stop() has returned; the consumer task
\* is cancelled and awaited.  When a concurrent stop_processing() has set
\* _processing_task to None meanwhile, self._processing_task.cancel() raises
\* AttributeError; cancel() on a task that has ended or is being cancelled
\* changes nothing
QueueStopCancel ==
    /\ bproc.stop = "stopping"
    /\ bstop.returned
    /\ bproc' = IF bproc.task = "none"
                THEN [bproc EXCEPT !.stop = "raised"]
                ELSE [bproc EXCEPT !.stop = "awaiting",
                                   !.task = IF @ = "live" THEN "cancelling" ELSE @]
    /\ UNCHANGED <<items, running, task, lock, last_process_time, bnow, bpc, bcancel,
                   btime, bitem, bawait, binflight, bhanded, bappended, bnext, bstop,
                   bret, bqueue>>
    /\ UNCHANGED <<pipeVars, libVars>>

\* the cancellation reaches the consumer where it is suspended: in
\* queue.get(), in the lock's queue (the record it took is dropped) or inside
\* the batch function (CancelledError passes `except Exception` and leaves
\* add_item, releasing the lock); _process_queue breaks out of its loop
QueueCancelled ==
    /\ bproc.task = "cancelling"
    /\ bproc' = [bproc EXCEPT !.task = "done"]
    /\ bpc' = [bpc EXCEPT ![Consumer] = "idle"]
    /\ IF bpc[Consumer] = "flushing"
       THEN /\ bhanded' = [bhanded EXCEPT ![binflight[Consumer]].status = "cancelled"]
            /\ binflight' = [binflight EXCEPT ![Consumer] = 0]
            /\ lock' = NoTask
       ELSE UNCHANGED <<bhanded, binflight, lock>>
    /\ UNCHANGED <<items, running, task, last_process_time, bnow, bcancel, btime, bitem,
                   bawait, bappended, bnext, bstop, bret, bqueue>>
    /\ UNCHANGED <<pipeVars, libVars>>

\* a second stop_processing() is called while the first is in progress:
\* lines 212-223 run without a suspension up to `await self._processing_task`
\* (_processing_task is set, and stop() returns at once because the
\* accumulator is not running any more)
QueueStopAgain ==
    /\ bproc.stop \in {"stopping", "awaiting"}
    /\ bproc.stop2 = "idle"
    /\ bproc.task # "none"
    /\ ~running
    /\ bproc' = [bproc EXCEPT !.stop2 = "awaiting",
                              !.task = IF @ = "live" THEN "cancelling" ELSE @]
    /\ UNCHANGED <<items, running, task, lock, last_process_time, bnow, bpc, bcancel,
                   btime, bitem, bawait, binflight, bhanded, bappended, bnext, bstop,
                   bret, bqueue>>
    /\ UNCHANGED <<pipeVars, libVars>>

\* the task the second stop_processing() awaits has ended: lines 224-227,
\* _processing_task = None and the call returns
QueueStopAgainReturn ==
    /\ bproc.stop2 = "awaiting"
    /\ bproc.task \in {"done", "none"}
    /\ bproc' = [bproc EXCEPT !.task = "none", !.stop2 = "returned"]
    /\ UNCHANGED <<items, running, task, lock, last_process_time, bnow, bpc, bcancel,
                   btime, bitem, bawait, binflight, bhanded, bappended, bnext, bstop,
                   bret, bqueue>>
    /\ UNCHANGED <<pipeVars, libVars>>

\* stop_processing(), lines 224-227: the awaited task has ended;
\* _processing_task = None and stop_processing() returns
QueueStopReturn ==
    /\ bproc.stop = "awaiting"
    /\ bproc.task \in {"done", "none"}
    /\ bproc' = [bproc EXCEPT !.task = "none", !.stop = "returned",
                              !.waiting = bqueue, !.pending = items,
                              !.handed = HandedItems(bhanded)]
    /\ UNCHANGED <<items, running, task, lock, last_process_time, bnow, bpc, bcancel,
                   btime, bitem, bawait, binflight, bhanded, bappended, bnext, bstop,
                   bret, bqueue>>
    /\ UNCHANGED <<pipeVars, libVars>>

QueueNext ==
    \/ BPTick
    \/ QueuePut
    \/ QueueStart
    \/ QueueGet
    \/ QueueAcquire
    \/ \E raises \in BOOLEAN : QueueFlushComplete(raises)
    \/ \E t \in Timers : TimerRun(t)
    \/ \E t \in Timers : TimerAcquire(t)
    \/ \E t \in Timers, raises \in BOOLEAN : TimerFlushComplete(t, raises)
    \/ \E t \in Timers : TimerCancelled(t)
    \/ QueueStop
    \/ StopAwaited
    \/ StopAcquire
    \/ \E raises \in BOOLEAN : StopFlushComplete(raises)
    \/ QueueStopCancel
    \/ QueueCancelled
    \/ QueueStopReturn
    \/ QueueStopAgain
    \/ QueueStopAgainReturn

SpecQueue == Init /\ [][QueueNext]_vars

\* the log of a finished health_check is dropped
HealthResume ==
    /\ hcall.called
    /\ hcall' = HealthLog
    /\ UNCHANGED <<pipeVars, bpVars, rcall, cacheVars>>

\* health_check is called between the pipeline's operations, while time
\* passes, the cache fills and records are queued
HealthNext ==
    \/ \E ingestion \in HealthScripts, storage \in HealthScripts :
          ~hcall.called /\ HealthCheck(ingestion, storage)
    \/ HealthResume
    \/ ~hcall.called /\ PipeTick
    \/ ~hcall.called /\ Resume
    \/ \E r \in RawRecords : ~hcall.called /\ ProcessMetrics(r)
    \/ ~hcall.called /\ QueuePut

SpecHealth == Init /\ [][HealthNext]_vars

\* records submitted in one run of SpecValidate
MaxValidated == 2

\* records of every shape are submitted to process_metrics while time passes
ValidateNext ==
    \/ PipeTick
    \/ Resume
    \/ \E r \in RawRecords \cup MoreRawRecords :
          psubmitted < MaxValidated /\ ProcessMetrics(r)

SpecValidate == Init /\ [][ValidateNext]_vars

SpecRetry == Init /\ [][RetryNext]_vars

SpecCache == Init /\ [][CacheNext]_vars

(***************************************************************************)
(* Properties of the accumulator (SpecBP).                                 *)
(***************************************************************************)
\* C1: once stop() has returned on a running accumulator, the pending list
\* is empty and every item that had been appended by add_item when stop() was
\* called has been handed to the batch function.
C1_StopDropsNothing ==
    bstop.returned =>
        /\ bstop.pending = <<>>
        /\ bstop.snap \subseteq bstop.handed

\* stop() has returned after a final flush of items added before the call
C1_Witness ==
    /\ bstop.returned
    /\ \E i \in DOMAIN bhanded :
          /\ bhanded[i].by = Stopper
          /\ SeqRange(bhanded[i].batch) \cap bstop.snap # {}

\* C2: no flush is left in flight and abandoned: a batch that was swapped
\* out of the pending list and handed to the batch function is processed to
\* completion, also when stop() cancels the timer task inside that flush.
C2_NoFlushAbandoned ==
    \A i \in DOMAIN bhanded : bhanded[i].status # "cancelled"

(***************************************************************************)
(* Properties of the pipeline (SpecPipe).                                  *)
(***************************************************************************)
\* the validator returns valid=true for r and r converts to a canonical record
Passes(r) == ~Validate(r).raised /\ Validate(r).result.valid /\ ~ParseObj(r).raised

\* the validator returns valid=false for r
Invalid(r) == ~Validate(r).raised /\ ~Validate(r).result.valid

\* the canonical records of a list of raw records
Objs(rs) == [i \in DOMAIN rs |-> ParseObj(rs[i]).obj]

\* the argument of every invocation of batch_store made by the logged
\* flushes, in order
BatchStoreCalls(fl) ==
    FlattenSeq([k \in DOMAIN fl |-> [j \in DOMAIN fl[k].attempts |-> fl[k].valid]])

\* the number of validate calls made by the logged flushes
RECURSIVE ValidateCalls(_)
ValidateCalls(fl) ==
    IF fl = <<>> THEN 0 ELSE Len(Head(fl).validated) + ValidateCalls(Tail(fl))

\* every invocation of the storage raised
AllRaise(attempts) ==
    attempts # <<>> /\ \A i \in DOMAIN attempts : attempts[i] = "raise"

\* a call of process_batch has returned
BatchReturned == plast.op = "process_batch" /\ plast.done

\* a call of process_metrics is over
OneReturned == plast.op = "process_metrics" /\ plast.done

\* C3: the outcome returned by process_batch(records) with N records counts
\* every record: success_count + failure_count = N, mid-loop flushes included.
C3_CountsSumToN ==
    BatchReturned =>
        plast.result.success_count + plast.result.failure_count = Len(plast.input)

\* the batches C4 speaks of: N records, 1 <= N < batch_size, that all
\* validate and parse, no flush by the time trigger
C4_AllPassNoTrigger ==
    /\ BatchReturned
    /\ Len(plast.input) \in 1..(PipeBatchSize - 1)
    /\ \A i \in DOMAIN plast.input : Passes(plast.input[i])
    /\ \A i \in DOMAIN plast.triggers : plast.triggers[i] # "time"

\* C4 as stated: batch_store is invoked exactly once, with exactly the N
\* records in submission order.
C4_StoredExactlyOnce ==
    C4_AllPassNoTrigger =>
        BatchStoreCalls(plast.flushes) = <<Objs(plast.input)>>

\* C4: for a batch of N such records handed to process_batch while
\* nothing is pending in the accumulator, every invocation of batch_store gets
\* exactly the N records in submission order; batch_store is invoked once
\* when its first invocation does not raise, and again after each invocation
\* that raises, at most retry_count + 1 times.
C4_StoredInOrder ==
    (C4_AllPassNoTrigger /\ plast.pre_items = <<>>) =>
        LET calls == BatchStoreCalls(plast.flushes)
            attempts == plast.flushes[1].attempts
        IN /\ Len(plast.flushes) = 1
           /\ Len(calls) \in 1..(PipeRetryCount + 1)
           /\ \A i \in DOMAIN calls : calls[i] = Objs(plast.input)
           /\ \A i \in 1..(Len(attempts) - 1) : attempts[i] = "raise"

\* two different records stored by the first invocation of batch_store
C4_Witness ==
    /\ C4_AllPassNoTrigger
    /\ plast.pre_items = <<>>
    /\ Len(plast.input) = 2
    /\ plast.input[1] # plast.input[2]
    /\ BatchStoreCalls(plast.flushes) = <<Objs(plast.input)>>

\* C5: process_batch calls validate exactly once for each record of the
\* batch: N records handed over while nothing is pending, none of which makes
\* the validator raise, cause N validate calls.
C5_ValidateOncePerRecord ==
    (/\ BatchReturned
     /\ plast.pre_items = <<>>
     /\ \A i \in DOMAIN plast.input : ~Validate(plast.input[i]).raised) =>
        ValidateCalls(plast.flushes) = Len(plast.input)

\* C6: in a batch flush a record of validation outcome valid=false is not
\* passed to batch_store and is listed in failures with the validator's
\* errors, every record that validates and parses is passed to batch_store,
\* and one valid with one invalid record, the storage storing what it gets,
\* give success_count 1, failure_count 1 and one failure entry.
C6_Partition ==
    \A k \in DOMAIN plast.flushes :
        LET e == plast.flushes[k]
        IN /\ \A i \in DOMAIN e.batch :
                Invalid(e.batch[i]) =>
                   /\ \A j \in DOMAIN e.valid : e.valid[j] # ParseObj(e.batch[i]).obj
                   /\ \E j \in DOMAIN e.result.failures :
                         /\ e.result.failures[j].data = e.batch[i]
                         /\ e.result.failures[j].errors =
                               FlattenSeq(Validate(e.batch[i]).result.errors)
           /\ e.valid = Objs(SelectSeq(e.batch, Passes))
           /\ e.valid # <<>> => e.attempts # <<>>
           /\ (/\ Len(e.batch) = 2
               /\ \E i, j \in DOMAIN e.batch : Passes(e.batch[i]) /\ Invalid(e.batch[j])
               /\ e.attempts # <<>>
               /\ e.attempts[Len(e.attempts)] = "ok") =>
                  /\ e.result.success_count = 1
                  /\ e.result.failure_count = 1
                  /\ Len(e.result.failures) = 1

\* C7: for a record whose validation outcome is valid=false, process_metrics
\* returns False and store is never called.
C7_InvalidNotStored ==
    (OneReturned /\ Invalid(plast.input[1])) =>
        /\ ~plast.raised
        /\ plast.ret = FALSE
        /\ plast.attempts = <<>>

\* process_metrics has returned for a record without timestamp that the
\* validator was called on
C7_Witness ==
    /\ OneReturned
    /\ plast.input = <<"nots">>
    /\ plast.validated = 1
    /\ plast.ret = FALSE

\* C8: process_metrics never raises to its caller; when the validator, the
\* conversion or the storage fails it returns False.
C8_NeverRaises ==
    OneReturned =>
        /\ ~plast.raised
        /\ (\/ ~Passes(plast.input[1])
            \/ AllRaise(plast.attempts)) => plast.ret = FALSE

\* C9 as stated: a False of store is not retried and gives False; a True of
\* the first store call gives True with exactly one validate and one store
\* call.
C9_OneValidateOneStore ==
    (OneReturned /\ plast.attempts # <<>>) =>
        /\ plast.attempts[1] = "fail" =>
              (plast.ret = FALSE /\ Len(plast.attempts) = 1)
        /\ plast.attempts[1] = "ok" =>
              (plast.ret = TRUE /\ Len(plast.attempts) = 1 /\ plast.validated = 1)

\* C9: a False of store is not retried and gives False; a True of the first
\* store call gives True with exactly one store call and at most one validate
\* call: one when the cache holds no unexpired validation result of the
\* record, none when it holds one.
C9_StoreOnceValidateUnlessCached ==
    (OneReturned /\ plast.attempts # <<>>) =>
        /\ plast.attempts[1] = "fail" =>
              (plast.ret = FALSE /\ Len(plast.attempts) = 1)
        /\ plast.attempts[1] = "ok" =>
              /\ plast.ret = TRUE
              /\ Len(plast.attempts) = 1
              /\ plast.validated = (IF plast.hit THEN 0 ELSE 1)

\* a record whose validation result is cached and unexpired is stored by the
\* first store call without a validate call
C9_Witness ==
    /\ OneReturned
    /\ plast.attempts = <<"ok">>
    /\ plast.ret = TRUE
    /\ plast.hit
    /\ plast.validated = 0

\* C10: store or batch_store is never invoked more than retry_count + 1
\* times for one operation; when every invocation raises it is invoked exactly
\* retry_count + 1 times, process_metrics then returns False, and the batch
\* flush then reports success_count 0 and every valid record of the flush as
\* a failure.
C10_RetriedThenReported ==
    /\ Len(plast.attempts) <= PipeRetryCount + 1
    /\ (OneReturned /\ AllRaise(plast.attempts)) =>
          /\ Len(plast.attempts) = PipeRetryCount + 1
          /\ ~plast.raised
          /\ plast.ret = FALSE
    /\ \A k \in DOMAIN plast.flushes :
          LET e == plast.flushes[k]
          IN /\ Len(e.attempts) <= PipeRetryCount + 1
             /\ AllRaise(e.attempts) =>
                   /\ Len(e.attempts) = PipeRetryCount + 1
                   /\ e.result.success_count = 0
                   /\ e.result.failure_count = Len(e.batch)
                   /\ \A i \in DOMAIN e.valid :
                         \E j \in DOMAIN e.result.failures :
                            /\ e.result.failures[j].data = e.valid[i].metric_type
                            /\ e.result.failures[j].errors =
                                  <<Err("Storage error", "", -1)>>

\* a flush of a valid and an invalid record whose batch_store raised each time
C10_Witness ==
    \E k \in DOMAIN plast.flushes :
        /\ AllRaise(plast.flushes[k].attempts)
        /\ plast.flushes[k].valid # <<>>
        /\ Len(plast.flushes[k].batch) > Len(plast.flushes[k].valid)


\* C11: a record of a flushed batch that fails (validation outcome invalid,
\* validator raising, parse failure) does not abort its siblings: the records
\* of the batch that validate and parse are passed to batch_store and the
\* failing record is listed in failures with the record attached.
C11_SiblingsNotAborted ==
    \A k \in DOMAIN plast.flushes :
        LET e == plast.flushes[k]
        IN (\E i \in DOMAIN e.batch : ~Passes(e.batch[i])) =>
              /\ e.valid = Objs(SelectSeq(e.batch, Passes))
              /\ e.valid # <<>> => e.attempts # <<>>
              /\ \A i \in DOMAIN e.batch :
                    ~Passes(e.batch[i]) =>
                       \E j \in DOMAIN e.result.failures :
                          e.result.failures[j].data = e.batch[i]

(***************************************************************************)
(* Properties of with_retry (SpecRetry).                                   *)
(***************************************************************************)
\* the first k invocations of the script raise a qualifying exception
QualFails(script, k) ==
    \A i \in 1..k : script[i].raises /\ script[i].qualifies

RECURSIVE SumSeq(_)
SumSeq(ws) == IF ws = <<>> THEN 0 ELSE Head(ws) + SumSeq(Tail(ws))

RECURSIVE Pow(_, _)
Pow(b, n) == IF n = 0 THEN 1 ELSE b * Pow(b, n - 1)

\* C12: with_retry invokes the operation at most retries + 1 times, exactly
\* retries + 1 times when every attempt raises a qualifying exception, and
\* exactly k times, returning the result of attempt k, when attempt k is the
\* first that succeeds.
C12_AtMostRetriesPlusOne ==
    rcall.called =>
        /\ rcall.out.calls <= rcall.retries + 1
        /\ QualFails(rcall.script, rcall.retries + 1) =>
              rcall.out.calls = rcall.retries + 1
        /\ \A k \in DOMAIN rcall.script :
              (QualFails(rcall.script, k - 1) /\ ~rcall.script[k].raises) =>
                 /\ ~rcall.out.raised
                 /\ rcall.out.value = rcall.script[k].value
                 /\ rcall.out.calls = k

\* retries = 2, the operation fails twice and then succeeds: 3 invocations
C12_Witness ==
    /\ rcall.called
    /\ rcall.retries = 2
    /\ QualFails(rcall.script, 2)
    /\ ~rcall.script[3].raises
    /\ rcall.out.calls = 3
    /\ ~rcall.out.raised

\* C13: when all retries + 1 attempts raise a qualifying exception,
\* with_retry raises the exception of the last attempt, unwrapped.
C13_LastExceptionRaised ==
    (rcall.called /\ QualFails(rcall.script, rcall.retries + 1)) =>
        /\ rcall.out.raised
        /\ rcall.out.value = rcall.script[rcall.retries + 1].value

\* every attempt fails, the first and the last with different exceptions
C13_Witness ==
    /\ rcall.called
    /\ rcall.retries >= 1
    /\ QualFails(rcall.script, rcall.retries + 1)
    /\ rcall.script[1].value # rcall.script[rcall.retries + 1].value
    /\ rcall.out.raised

\* C14: an exception outside the retryable set propagates at once: the
\* operation is not invoked again and no wait follows it, whatever attempts
\* remain.
C14_NonQualifyingPropagates ==
    rcall.called =>
        \A k \in DOMAIN rcall.script :
            (/\ QualFails(rcall.script, k - 1)
             /\ rcall.script[k].raises
             /\ ~rcall.script[k].qualifies) =>
                /\ rcall.out.raised
                /\ rcall.out.value = rcall.script[k].value
                /\ rcall.out.calls = k
                /\ Len(rcall.out.waits) = k - 1

\* the second of three attempts raises an exception that does not qualify
C14_Witness ==
    /\ rcall.called
    /\ rcall.retries = 2
    /\ QualFails(rcall.script, 1)
    /\ rcall.script[2] = RaisesOther("k1")
    /\ rcall.out.calls = 2

\* C15: with_retry waits only between attempts: once after each failed
\* attempt that is followed by another, the k-th wait being
\* delay * backoff^(k-1), so f failures followed by a success wait
\* delay * (1 + backoff + ... + backoff^(f-1)) in all.
C15_ExponentialBackoff ==
    rcall.called =>
        /\ Len(rcall.out.waits) = rcall.out.calls - 1
        /\ \A k \in DOMAIN rcall.out.waits :
              rcall.out.waits[k] = rcall.delay * Pow(rcall.backoff, k - 1)
        /\ \A f \in 0..rcall.retries :
              (QualFails(rcall.script, f) /\ ~rcall.script[f + 1].raises) =>
                 SumSeq(rcall.out.waits) =
                    SumSeq([k \in 1..f |-> rcall.delay * Pow(rcall.backoff, k - 1)])

\* the scenario: retries 2, backoff 2, two failures then a success wait
\* delay + 2 * delay
C15_Witness ==
    /\ rcall.called
    /\ rcall.retries = 2
    /\ rcall.backoff = 2
    /\ QualFails(rcall.script, 2)
    /\ ~rcall.script[3].raises
    /\ rcall.out.waits = <<rcall.delay, 2 * rcall.delay>>

(***************************************************************************)
(* Properties of SimpleCache (SpecCache).                                   *)
(***************************************************************************)
\* the entries of cache c, as a set
Entries(c) == {c[i] : i \in DOMAIN c}

\* the entries the last operation removed without putting back an entry of
\* the same key, and the keys they had
RemovedKeys == CacheKeys(clast.pre) \ CacheKeys(ccache)

\* the last operation was a set of a key the cache did not hold while it
\* held max_size entries
SetNewAtCapacity ==
    /\ clast.op = "set"
    /\ clast.key \notin CacheKeys(clast.pre)
    /\ Len(clast.pre) >= CacheCap

\* C16: set evicts exactly one entry, one of earliest expiry, if and only if
\* the key is new and the cache holds max_size entries, and evicts nothing
\* otherwise (an overwrite included); every other entry is kept as it was, so
\* M+1 distinct keys set into a cache of capacity M leave exactly M keys, the
\* missing one being the entry of earliest expiry when the last was set.
C16_EvictsEarliestExpiryWhenFull ==
    clast.op = "set" =>
        /\ clast.key \in CacheKeys(ccache)
        /\ IF SetNewAtCapacity
           THEN /\ Cardinality(RemovedKeys) = 1
                /\ \A e \in Entries(clast.pre) :
                       e.key \in RemovedKeys =>
                           \A f \in Entries(clast.pre) : e.expiry <= f.expiry
                /\ Len(clast.pre) = CacheCap => Cardinality(CacheKeys(ccache)) = CacheCap
           ELSE RemovedKeys = {}
        /\ \A e \in Entries(clast.pre) :
               e.key \notin RemovedKeys \cup {clast.key} => e \in Entries(ccache)

\* a set of a new key into a full cache evicted an entry that was not the
\* first inserted
C16_Witness ==
    /\ SetNewAtCapacity
    /\ Len(clast.pre) = CacheCap
    /\ clast.pre[1].key \in CacheKeys(ccache)
    /\ Cardinality(CacheKeys(ccache)) = CacheCap

\* C17: get returns the stored value exactly when the cache holds an entry
\* for the key whose expiry has not passed, and then changes nothing; in
\* every other case (expiry passed, key deleted, cleared, evicted or never
\* set) it returns None, and the cache holds no entry for the key afterwards
\* and keeps every other entry; delete, clear and eviction leave no entry for
\* the keys they remove.
C17_GetOnlyUnexpired ==
    /\ clast.op = "get" =>
           IF \E e \in Entries(clast.pre) : e.key = clast.key /\ clast.now <= e.expiry
           THEN /\ \E e \in Entries(clast.pre) :
                       e.key = clast.key /\ clast.ret = Some(e.value)
                /\ ccache = clast.pre
           ELSE /\ clast.ret = NoneVal
                /\ clast.key \notin CacheKeys(ccache)
                /\ \A e \in Entries(clast.pre) :
                       e.key # clast.key => e \in Entries(ccache)
    /\ clast.op = "delete" => clast.key \notin CacheKeys(ccache)
    /\ clast.op = "clear" => ccache = <<>>
    /\ \A i, j \in DOMAIN ccache : ccache[i].key = ccache[j].key => i = j

\* a get found an entry whose expiry had passed, returned None and removed it
C17_Witness ==
    /\ clast.op = "get"
    /\ \E e \in Entries(clast.pre) : e.key = clast.key /\ clast.now > e.expiry
    /\ clast.ret = NoneVal
    /\ Len(ccache) = Len(clast.pre) - 1
    /\ ccache # <<>>

\* C18: cleanup removes the entries whose expiry has passed and no other,
\* and returns their number; the passing of time removes nothing, get removes
\* at most the entry of its key, set at most one entry, delete at most the
\* entry of its key.
C18_CleanupRemovesExactlyExpired ==
    /\ clast.op = "cleanup" =>
           /\ Entries(ccache) = {e \in Entries(clast.pre) : ~(clast.now > e.expiry)}
           /\ clast.ret = Some(Len(clast.pre) - Len(ccache))
    /\ clast.op = "tick" => ccache = clast.pre
    /\ clast.op \in {"get", "delete"} => RemovedKeys \subseteq {clast.key}
    /\ clast.op = "set" => Cardinality(RemovedKeys) <= 1

\* a cleanup removed one expired entry and kept an entry expiring at that
\* instant
C18_Witness ==
    /\ clast.op = "cleanup"
    /\ clast.ret = Some(1)
    /\ \E e \in Entries(ccache) : e.expiry = clast.now

(***************************************************************************)
(* Properties of BatchProcessor.add_item (SpecBP).                          *)
(***************************************************************************)
\* this step appends the item of caller c's add_item call to the pending list
AppendStep(c) ==
    bitem'[c] \notin SeqRange(bappended) /\ bitem'[c] \in SeqRange(bappended')

\* the batch function is invoked in this step, by task who on batch
Invoked(who, batch) ==
    bhanded' = Append(bhanded, [batch |-> batch, by |-> who, status |-> "running",
                                outcome |-> EmptyResult])

\* C19: the add_item call that brings the pending count to batch_size hands
\* the pending list with its own item at the end (exactly batch_size items,
\* those appended since the list was last handed over, in order) to the batch
\* function, leaves an empty pending list and does not return before the
\* batch function has; an add_item that triggers no flush appends its item to
\* the pending list, which nothing else changes but a flush that takes it
\* whole, so the add_item after a flush starts a list of its own item alone.
C19_SizeTriggerFlushesBatch ==
    [][\A c \in Callers :
          /\ AppendStep(c) /\ Len(items) + 1 = BPBatchSize =>
                /\ Invoked(c, Append(items, bitem'[c]))
                /\ Len(bhanded'[Len(bhanded')].batch) = BPBatchSize
                /\ items' = <<>>
                /\ bpc'[c] = "flushing"
                /\ bret'[c] = NoReturn
          /\ AppendStep(c) /\ bhanded' = bhanded => items' = Append(items, bitem'[c])
          /\ AppendStep(c) /\ items = <<>> =>
                items' = <<bitem'[c]>> \/ (items' = <<>> /\ Invoked(c, <<bitem'[c]>>))
          /\ bpc[c] = "flushing" /\ bpc'[c] # "flushing" =>
                bhanded'[binflight[c]].status \in {"returned", "raised"}
          /\ (items' # items /\ \A d \in Callers : ~AppendStep(d)) =>
                items' = <<>> /\ \E who \in Tasks : Invoked(who, items)
          /\ Len(items') < BPBatchSize]_vars

\* a size-triggered flush of batch_size items has returned to its caller and
\* the next add_item has left a pending list of its own item alone
C19_Witness ==
    \E c \in Callers :
        /\ Len(bhanded) = 1
        /\ bhanded[1].by = c
        /\ Len(bhanded[1].batch) = BPBatchSize
        /\ bhanded[1].status = "returned"
        /\ items = <<bitem[c]>>
        /\ bret[c].kind = "empty"
        /\ bnow = 0

\* an invocation of the batch function that is over
Over(f) == bhanded[f].status \in {"returned", "raised"}

\* C20: add_item returns the outcome of an invocation of the batch function
\* only to the call that made it (the call whose item ends the batch), and
\* that call gets it; a call that invokes nothing returns {} with its item in
\* the pending list, and no two callers hold the outcome of one invocation.
C20_OutcomeOnlyToTrigger ==
    /\ [](\A c \in Callers :
            /\ bret[c].kind = "outcome" =>
                  /\ bret[c].flush \in DOMAIN bhanded
                  /\ bhanded[bret[c].flush].by = c
                  /\ Over(bret[c].flush)
                  /\ bhanded[bret[c].flush].batch[Len(bhanded[bret[c].flush].batch)] = bitem[c]
            /\ bret[c].kind = "empty" =>
                  \A f \in DOMAIN bhanded :
                      bhanded[f].by = c => bitem[c] \notin SeqRange(bhanded[f].batch)
            /\ \A f \in DOMAIN bhanded :
                  (bhanded[f].by = c /\ Over(f) /\ bitem[c] \in SeqRange(bhanded[f].batch))
                      => bret[c] = [kind |-> "outcome", flush |-> f]
            /\ \A d \in Callers :
                  (bret[c].kind = "outcome" /\ bret[d] = bret[c]) => c = d)
    /\ [][\A c \in Callers :
            /\ AppendStep(c) /\ bhanded' = bhanded =>
                  bret'[c].kind = "empty" /\ bpc'[c] = "idle"
            /\ AppendStep(c) /\ bret'[c].kind = "empty" =>
                  bhanded' = bhanded /\ bitem'[c] \in SeqRange(items')]_vars

\* a call has returned {} with its item pending after an earlier call of the
\* same caller got the outcome of the flush it triggered
C20_Witness ==
    \E c \in Callers :
        /\ bret[c].kind = "empty"
        /\ bitem[c] \in SeqRange(items)
        /\ \E f \in DOMAIN bhanded : bhanded[f].by = c /\ Over(f)

(***************************************************************************)
(* Liveness of the accumulator (SpecBPLive).                                *)
(***************************************************************************)
\* the accumulator is running with a pending list and batch_timeout has
\* elapsed since the last flush
PartialBatchDue ==
    /\ running
    /\ TimeTrigger(items, bnow, last_process_time, BPBatchTimeout)

\* C21: while the accumulator is running, a pending list for which
\* batch_timeout has elapsed since the last flush is eventually flushed (the
\* pending list becomes empty), unless the accumulator is stopped first.
C21_PartialBatchFlushed == PartialBatchDue ~> (items = <<>> \/ ~running)

\* the timer task has flushed a partially filled batch
C21_Witness ==
    \E f \in DOMAIN bhanded :
        /\ bhanded[f].by \in Timers
        /\ Len(bhanded[f].batch) < BPBatchSize
        /\ bhanded[f].status = "returned"
        /\ running

(***************************************************************************)
(* The batch function raises during a flush (SpecBP).                       *)
(***************************************************************************)
\* invocation f of the batch function ends in this step by raising
RaisesNow(f) == bhanded[f].status = "running" /\ bhanded'[f].status = "raised"

\* C22: when the batch function raises, _process_batch returns the synthetic
\* outcome (success_count 0, failure_count the number of items of that flush,
\* one error message and no per-item entries); the task that flushed goes on
\* normally, the add_item caller returning that outcome, the timer task going
\* back to its loop, stop() returning; the lock is released and the pending
\* list is untouched, so later add_item calls and flushes proceed.
C22_RaiseBecomesOutcome ==
    /\ [](\A f \in DOMAIN bhanded :
            bhanded[f].status = "raised" =>
                /\ bhanded[f].outcome.keys = {"success_count", "failure_count", "error"}
                /\ bhanded[f].outcome.success_count = 0
                /\ bhanded[f].outcome.failure_count = Len(bhanded[f].batch)
                /\ bhanded[f].outcome.failures = <<>>
                /\ bhanded[f].outcome.error # "")
    /\ [][\A f \in DOMAIN bhanded :
            RaisesNow(f) =>
                /\ bhanded[f].by \in Callers =>
                      /\ bpc'[bhanded[f].by] = "idle"
                      /\ bret'[bhanded[f].by] = [kind |-> "outcome", flush |-> f]
                /\ bhanded[f].by \in Timers => bpc'[bhanded[f].by] = "ready"
                /\ bhanded[f].by = Stopper => bpc'[Stopper] = "idle" /\ bstop'.returned
                /\ bhanded[f].by = Forcer => bpc'[Forcer] = "idle"
                /\ lock = bhanded[f].by => lock' = NoTask
                /\ items' = items]_vars

\* after a flush by the timer task in which the batch function raised, the
\* timer task is back in its loop and a later flush by an add_item caller
\* has returned
C22_Witness ==
    /\ Len(bhanded) >= 2
    /\ bhanded[Len(bhanded) - 1].by \in Timers
    /\ bhanded[Len(bhanded) - 1].status = "raised"
    /\ bpc[bhanded[Len(bhanded) - 1].by] = "ready"
    /\ bhanded[Len(bhanded)].by \in Callers
    /\ bhanded[Len(bhanded)].status = "returned"

(***************************************************************************)
(* The start/stop lifecycle (SpecLife).                                     *)
(***************************************************************************)
\* the timer tasks that exist and have not ended
LiveTimers == {t \in Timers : bpc[t] \in {"ready", "wait_lock", "flushing"}}

\* C23: start() on a running accumulator creates no timer task, and a new
\* task becomes self.task of a running accumulator; stop() on an accumulator
\* that is not running does nothing (stop() does not proceed, nothing is
\* flushed); at most one timer task is live that has not been cancelled, a
\* running accumulator's task is that one, and whenever no stop() is in
\* progress at most one timer task is live at all.
C23_StartStopIdempotent ==
    /\ [](/\ Cardinality(LiveTimers \ bcancel) <= 1
          /\ running => LiveTimers \ bcancel = {task}
          /\ bpc[Stopper] = "idle" => Cardinality(LiveTimers) <= 1
          /\ (bpc[Stopper] = "idle" /\ ~running) => LiveTimers = {})
    /\ [][/\ \A t \in Timers :
                (bpc[t] = "unborn" /\ bpc'[t] # "unborn") =>
                    ~running /\ running' /\ task' = t
          /\ (~running /\ bpc[Stopper] = "idle") =>
                bpc'[Stopper] = "idle" /\ bstop' = bstop]_vars

\* the accumulator was started, stopped and started again: the first timer
\* task has ended and the second is the only live one
C23_Witness ==
    /\ running
    /\ bstop.returned
    /\ bpc[Stopper] = "idle"
    /\ Cardinality({t \in Timers : bpc[t] = "done"}) = 1
    /\ Cardinality(LiveTimers) = 1

(***************************************************************************)
(* stop_processing() (SpecQueue).                                           *)
(***************************************************************************)
\* C24: when stop_processing() has returned, every record that was queued
\* for the pipeline when it was called (waiting in the incoming queue, taken
\* from it, or pending in the accumulator) has been handed to the flush
\* function.
C24_StopProcessingLosesNothing ==
    bproc.stop = "returned" => bproc.snap \subseteq bproc.handed

(***************************************************************************)
(* C25.  The status health_check returns is 'unhealthy' whenever either    *)
(* collaborator's status is 'unhealthy', 'degraded' exactly when neither   *)
(* is 'unhealthy' and at least one is 'degraded', and 'healthy'            *)
(* otherwise; what each collaborator reported is found unchanged under     *)
(* details.                                                                *)
(***************************************************************************)
\* what the collaborator of this script answers within two invocations:
\* Some(report), or NoneVal when both raise
Answer(script) ==
    IF ~script[1].raises THEN Some(script[1].value)
    ELSE IF ~script[2].raises THEN Some(script[2].value)
    ELSE NoneVal

C25_CompositeStatus ==
    (hcall.called /\ ~hcall.raised) =>
        LET r == hcall.ret
            i == r.details.ingestion.status
            s == r.details.storage.status
            unhealthy == i = "unhealthy" \/ s = "unhealthy"
            degraded == i = "degraded" \/ s = "degraded"
        IN /\ unhealthy => r.status = "unhealthy"
           /\ r.status = "degraded" <=> (~unhealthy /\ degraded)
           /\ (~unhealthy /\ ~degraded) => r.status = "healthy"
           /\ Answer(hcall.ingestion) # NoneVal =>
                 r.details.ingestion = Answer(hcall.ingestion)[1]
           /\ Answer(hcall.storage) # NoneVal =>
                 r.details.storage = Answer(hcall.storage)[1]

\* one collaborator reports 'unhealthy', the other 'degraded', and the call
\* has returned 'unhealthy'
C25_Witness ==
    /\ hcall.called /\ ~hcall.raised
    /\ Answer(hcall.ingestion) = Some(Report("degraded"))
    /\ Answer(hcall.storage) = Some(Report("unhealthy"))
    /\ hcall.ret.status = "unhealthy"

(***************************************************************************)
(* C26.  A collaborator health check that raises is retried once and then  *)
(* reported, never raised: it is invoked exactly twice, the dependency is  *)
(* reported 'unhealthy' with the error in its details when the retry       *)
(* raises too, the other collaborator is still checked and health_check    *)
(* returns normally; a collaborator health check that succeeds is invoked  *)
(* exactly once.                                                           *)
(***************************************************************************)
\* what the call did with the collaborator of this script
CheckedOnce(script, calls, health) ==
    /\ script[1].raises => calls = 2
    /\ ~script[1].raises => calls = 1
    /\ Answer(script) = NoneVal =>
          /\ health.status = "unhealthy"
          /\ health.details = script[2].value.details

C26_FailureRetriedThenReported ==
    hcall.called =>
        /\ ~hcall.raised
        /\ CheckedOnce(hcall.ingestion, hcall.calls.ingestion,
                       hcall.ret.details.ingestion)
        /\ CheckedOnce(hcall.storage, hcall.calls.storage,
                       hcall.ret.details.storage)

\* the ingestion collaborator raised twice, the storage collaborator was
\* then checked once and reported 'healthy', and the call returned
C26_Witness ==
    /\ hcall.called
    /\ Answer(hcall.ingestion) = NoneVal
    /\ hcall.calls.ingestion = 2
    /\ hcall.calls.storage = 1
    /\ hcall.ret.details.storage = Report("healthy")
    /\ hcall.ret.details.ingestion.status = "unhealthy"
    /\ hcall.ret.status = "unhealthy"

(***************************************************************************)
(* C27.  In what the ingestion adapters' validate returns, valid is false  *)
(* if and only if errors is a non-empty list (errors is None exactly when  *)
(* valid is true), and each of the required fields timestamp, metric_type  *)
(* and metrics that the record lacks contributes its own 'Missing required *)
(* field' error.  What validate returned is what process_metrics caches    *)
(* under the record's key.                                                 *)
(***************************************************************************)
\* the number of errors of a validation result that say field is missing
MissingErrors(result, field) ==
    IF result.errors = NoneVal THEN 0
    ELSE Cardinality({i \in DOMAIN result.errors[1] :
                         result.errors[1][i] =
                             Err("Missing required field", field, -1)})

C27_ValidOrErrors ==
    \A i \in DOMAIN pcache :
        LET result == pcache[i].value
            r == Raw(pcache[i].key[2])
        IN /\ ~result.valid <=> (result.errors # NoneVal /\ result.errors[1] # <<>>)
           /\ result.errors = NoneVal <=> result.valid
           /\ \A f \in AllFields :
                 MissingErrors(result, f) = IF f \in r.fields THEN 0 ELSE 1

\* the validation of a record that has only its metrics was cached: invalid,
\* with exactly the two errors for timestamp and metric_type
C27_Witness ==
    \E i \in DOMAIN pcache :
        /\ pcache[i].key = CacheKey("onlymetrics")
        /\ ~pcache[i].value.valid
        /\ pcache[i].value.errors =
              Some(<<Err("Missing required field", "timestamp", -1),
                     Err("Missing required field", "metric_type", -1)>>)

(***************************************************************************)
(* C28.  Every record handed to the storage collaborator (store or         *)
(* batch_store) has at least one measurement: a raw record whose list of   *)
(* metrics is empty is never stored.                                       *)
(***************************************************************************)
C28_NoEmptyRecordStored ==
    /\ (plast.op = "process_metrics" /\ plast.attempts # <<>>) =>
          ParseObj(plast.input[1]).obj.n_metrics >= 1
    /\ \A k \in DOMAIN plast.flushes :
          plast.flushes[k].attempts # <<>> =>
              \A i \in DOMAIN plast.flushes[k].valid :
                  plast.flushes[k].valid[i].n_metrics >= 1

(***************************************************************************)
(* C29.  Every mutation of the pending list and of the last-flush          *)
(* timestamp is performed while the mutating task holds the processing     *)
(* lock, for every caller of the flush (add_item, the timer loop, stop and *)
(* process_batch's forced flush): a step that swaps the pending list and   *)
(* stamps the time leaves its task holding the lock for the invocation it  *)
(* starts, and a step that only appends is made by a task that takes the   *)
(* free lock and releases it.                                              *)
(***************************************************************************)
\* task k starts an invocation of the batch function in this step
StartsFlush(k) == binflight[k] = 0 /\ binflight'[k] # 0

C29_MutationsUnderLock ==
    [][(items' # items \/ last_process_time' # last_process_time) =>
          \/ \E k \in Tasks :
                StartsFlush(k) /\ lock \in {NoTask, k} /\ lock' = k
          \/ /\ \A k \in Tasks : ~StartsFlush(k)
             /\ lock = NoTask /\ lock' = NoTask
             /\ \E x \in 1..(MaxItems + 1) : items' = Append(items, x)]_vars

(***************************************************************************)
(* C30.  Flushes of one accumulator are strictly serialized: in no         *)
(* reachable state are two invocations of the batch function in progress   *)
(* at the same time, whatever the interleaving of process_batch callers,   *)
(* the timer loop and stop.                                                *)
(***************************************************************************)
\* the invocations of the batch function in progress
InProgress == {i \in DOMAIN bhanded : bhanded[i].status = "running"}

C30_FlushesSerialized == Cardinality(InProgress) <= 1

(***************************************************************************)
(* C31.  No two flushes operate on overlapping item sets: across every     *)
(* interleaving of add_item, timer flushes, forced flushes and stop, each  *)
(* added item is passed to the batch function in at most one flush, and    *)
(* once only in it.                                                        *)
(***************************************************************************)
\* the number of places in the batches handed to the batch function so far
RECURSIVE HandedCount(_)
HandedCount(h) ==
    IF h = <<>> THEN 0 ELSE Len(Head(h).batch) + HandedCount(Tail(h))

\* every place of every batch handed over holds an item that was added, and
\* no two places hold the same item
C31_NoItemFlushedTwice ==
    /\ HandedItems(bhanded) \subseteq SeqRange(bappended)
    /\ Cardinality(HandedItems(bhanded)) = HandedCount(bhanded)

\* two flushes by different tasks, one of them the forced flush, have been
\* handed an item each, and the two items differ
C31_Witness ==
    \E k, l \in DOMAIN bhanded :
        /\ k < l
        /\ bhanded[k].by # bhanded[l].by
        /\ Forcer \in {bhanded[k].by, bhanded[l].by}
        /\ bhanded[k].batch # <<>> /\ bhanded[l].batch # <<>>
        /\ SeqRange(bhanded[k].batch) \cap SeqRange(bhanded[l].batch) = {}

(***************************************************************************)
(* C32.  Submission order is preserved: items are appended to the pending  *)
(* list in the order their add_item calls acquire the accumulator, every   *)
(* batch presents its items in that order and batches are handed to the    *)
(* batch function in the order they were sealed, so the batches handed so  *)
(* far, one after the other, followed by the pending list are the sequence *)
(* of the appends.                                                         *)
(***************************************************************************)
\* the batches handed to the batch function, in order
Batches == [k \in DOMAIN bhanded |-> bhanded[k].batch]

C32_SubmissionOrderPreserved ==
    FlattenSeq(Batches) \o items = bappended

\* three items were appended; the first two were handed out in two batches
\* and the third is pending
C32_Witness ==
    /\ Len(bappended) = 3
    /\ Len(bhanded) = 2
    /\ bhanded[1].batch = <<bappended[1]>>
    /\ bhanded[2].batch = <<bappended[2]>>
    /\ items = <<bappended[3]>>

(***************************************************************************)
(* C33.  The batch function is invoked outside the critical section:      *)
(* while the batch function of a flush is awaited the task that flushes    *)
(* does not hold the accumulator's lock, so no add_item call waits for the *)
(* lock because of a flush in progress.                                    *)
(***************************************************************************)
C33_FlushOutsideLock ==
    \A k \in InProgress :
        /\ lock # bhanded[k].by
        /\ \A c \in Callers : bpc[c] # "wait_lock"

(***************************************************************************)
(* C34.  Time trigger of add_item: when an add_item call does not reach    *)
(* the size threshold but at least batch_timeout has elapsed since the     *)
(* last flush (or since construction if none happened), the call flushes   *)
(* at once, the item just added included; and every flush sets the         *)
(* last-flush timestamp to the time of that flush.                         *)
(***************************************************************************)
C34_TimeTriggerFlushes ==
    [][/\ \A c \in Callers :
             (/\ AppendStep(c)
              /\ Len(items) + 1 < BPBatchSize
              /\ bnow - last_process_time >= BPBatchTimeout) =>
                 /\ StartsFlush(c)
                 /\ bhanded'[binflight'[c]].batch = Append(items, bitem'[c])
                 /\ items' = <<>>
       /\ \A k \in Tasks : StartsFlush(k) => last_process_time' = bnow]_vars

\* an add_item call below the size threshold has flushed on the time
\* trigger: its batch is running and the timestamp is the present instant
C34_Witness ==
    \E c \in Callers :
        /\ binflight[c] # 0
        /\ Len(bhanded[binflight[c]].batch) < BPBatchSize
        /\ bitem[c] \in SeqRange(bhanded[binflight[c]].batch)
        /\ last_process_time = bnow
        /\ bnow >= BPBatchTimeout

(***************************************************************************)
(* C35.  The lifecycle is stopped -> running -> stopped and the timer task *)
(* exists only in the running state.  As stated, for every reachable       *)
(* state: a live (not finished) timer task implies running, and running    *)
(* implies that a timer task has been spawned.                             *)
(***************************************************************************)
C35_LiveTimerOnlyWhenRunning ==
    /\ LiveTimers # {} => running
    /\ running => (task \in Timers /\ bpc[task] # "unborn")

\* C35 as it holds: a live timer task whose cancellation has not been
\* requested implies running and is self.task; whenever no stop() is in
\* progress a live timer task implies running; and running implies that
\* self.task is a timer task that has been spawned.
C35_LiveTimerOnlyWhenRunningOrStopping ==
    /\ \A t \in LiveTimers \ bcancel : running /\ task = t
    /\ bpc[Stopper] = "idle" => (LiveTimers # {} => running)
    /\ running => (task \in Timers /\ bpc[task] # "unborn")

\* stop() has cleared running and requested the cancellation of the timer
\* task, which has not ended yet
C35_Witness ==
    /\ ~running
    /\ bpc[Stopper] = "await_task"
    /\ LiveTimers # {}
    /\ LiveTimers \subseteq bcancel

(***************************************************************************)
(* C36.  For _process_metrics_batch applied to k records, the storage's    *)
(* own counts summing to the number of records it was given, the outcome   *)
(* it returns has success_count + failure_count = k and as many failures   *)
(* listed as failure_count says, whatever mix of invalid, unparseable and  *)
(* valid records the batch holds.                                          *)
(***************************************************************************)
C36_FlushCountsSumToK ==
    \A k \in DOMAIN plast.flushes :
        LET e == plast.flushes[k]
        IN ~e.raised =>
              /\ e.result.success_count + e.result.failure_count = Len(e.batch)
              /\ Len(e.result.failures) = e.result.failure_count

\* a flush of an invalid, an unparseable and a valid record whose batch_store
\* raised every time has returned three failures and no success
C36_Witness ==
    \E k \in DOMAIN plast.flushes :
        LET e == plast.flushes[k]
        IN /\ ~e.raised
           /\ \E i, j, l \in DOMAIN e.batch :
                 /\ e.batch[i] = "nots"
                 /\ e.batch[j] = "badvalue"
                 /\ Passes(e.batch[l])
           /\ AllRaise(e.attempts)
           /\ e.result.success_count = 0
           /\ e.result.failure_count = 3

(***************************************************************************)
(* C37.  Validation is cache-assisted: while an unexpired cache entry      *)
(* exists for a record's fingerprint, neither process_metrics nor a batch  *)
(* flush calls the validator for that record, and the cached outcome       *)
(* decides its fate; so no flush calls the validator twice for one         *)
(* fingerprint.                                                            *)
(***************************************************************************)
\* the validation outcome the cache c holds under the key of r
CachedOutcome(c, r) == c[CacheIndex(c, CacheKey(r))].value

\* the flushes logged by this step
NewFlushes ==
    IF plast.op = "process_batch" /\ plast'.op = "process_batch"
    THEN SubSeq(plast'.flushes, Len(plast.flushes) + 1, Len(plast'.flushes))
    ELSE IF plast' # plast THEN plast'.flushes ELSE <<>>

C38_NeverOverCapacity ==
    /\ Len(ccache) <= CacheCap
    /\ Cardinality(CacheKeys(ccache)) = Len(ccache)

\* a new key was set into a cache that held max_size entries, the first
\* inserted of which made room: the cache holds max_size entries again
C38_Witness ==
    /\ SetNewAtCapacity
    /\ clast.pre[1].key \notin CacheKeys(ccache)
    /\ Len(ccache) = CacheCap

(***************************************************************************)
(* C39.  For batch_size >= 1 every invocation of the batch function gets a *)
(* non-empty list of at most batch_size items: nothing is handed over when *)
(* the pending list is empty, and the pending list is shorter than         *)
(* batch_size whenever no add_item call is between its append and its      *)
(* test of the size.                                                       *)
(***************************************************************************)
C39_BatchWithinSize ==
    /\ \A k \in DOMAIN bhanded :
          /\ bhanded[k].batch # <<>>
          /\ Len(bhanded[k].batch) <= BPBatchSize
    /\ Len(items) < BPBatchSize

\* a full batch was handed over on the size trigger, and a stop() that found
\* nothing pending has returned without an invocation of its own
C39_Witness ==
    /\ bstop.returned
    /\ items = <<>>
    /\ \A k \in DOMAIN bhanded : bhanded[k].by # Stopper
    /\ \E k \in DOMAIN bhanded :
          /\ bhanded[k].by \in Callers
          /\ Len(bhanded[k].batch) = BPBatchSize

(***************************************************************************)
(* C40.  For every interleaving of concurrent start_processing() and       *)
(* stop_processing() calls on one pipeline, each call completes without    *)
(* raising, at most one timer task exists at any time, and once the        *)
(* stop_processing() calls have returned with no later start the           *)
(* consumption task reference is None and the accumulator is stopped.      *)
(***************************************************************************)
C40_ConcurrentStartStopSafe ==
    /\ bproc.stop # "raised"
    /\ Cardinality(LiveTimers) <= 1
    /\ (bproc.stop = "returned" /\ bproc.stop2 \in {"idle", "returned"}) =>
          (bproc.task = "none" /\ ~running)

====
